---- MODULE Spec2Model ----
(***************************************************************************)
(* Model of airnet: the Reader's records, Model construction (model.py)    *)
(* and the airflow element laws (afedat.py).                               *)
(*                                                                         *)
(* Representation of Python values:                                        *)
(*   - a dict is a function from its string keys to values; `pop` removes  *)
(*     a key from the domain;                                              *)
(*   - a float is an exact rational <<num, den>> in lowest terms, den > 0; *)
(*   - None is the empty tuple <<>>; an int that may be None (Node.index)  *)
(*     is the one-element tuple <<i>>;                                     *)
(*   - an object reference to a Node or an element held by a Link is the   *)
(*     key of that object in Model.nodes / Model.elements;                 *)
(*   - a raised exception is the record [exception |-> name of its class]. *)
(***************************************************************************)
EXTENDS Integers, Sequences, FiniteSets, TLC

VARIABLES source, reader_title, items, network_input, model, pc,
          element, link, call

vars == <<source, reader_title, items, network_input, model, pc,
          element, link, call>>

netvars == <<source, reader_title, items, network_input, model, pc>>
afevars == <<element, link, call>>

\* Longest record list handed to Model()
MaxRecords == 4

\* Largest flow coefficient given to an element constructor
MaxCoef == 2

None == <<>>

\* ------------------------------------------------------------------------
\* Numbers
\* ------------------------------------------------------------------------
Abs(x) == IF x < 0 THEN -x ELSE x

RECURSIVE GCD(_, _)
GCD(a, b) == IF b = 0 THEN a ELSE GCD(b, a % b)

\* The rational n/d in lowest terms with a positive denominator
Rat(n, d) ==
    LET s == IF d < 0 THEN -1 ELSE 1
        g == GCD(Abs(n), Abs(d))
    IN  <<(s * n) \div g, (s * d) \div g>>

R(i) == <<i, 1>>
Zero == R(0)
Half == <<1, 2>>

\* ------------------------------------------------------------------------
\* Strings: the str methods the Reader uses, on lines without the line end
\* ------------------------------------------------------------------------
\* The characters str.strip(), str.lstrip() and str.split() take as blank,
\* among the characters up to U+00FF that a line of the model is made of:
\* the space, \t, \n, \r, \f, then U+000B, U+001C, U+001D, U+001E,
\* U+001F, U+0085 and U+00A0, written as the characters themselves
Whitespace == {" ", "\t", "\n", "\r", "\f", "", "", "", "", "", "", " "}

\* s[i-1] of the code, as a string of one character
Char(s, i) == SubSeq(s, i, i)

\* s.lstrip(chars) and s.rstrip(chars): s from its first character that is
\* not one of chars on, and up to its last one
LStripOf(s, chars) ==
    IF \A i \in 1..Len(s) : Char(s, i) \in chars THEN ""
    ELSE SubSeq(s, CHOOSE i \in 1..Len(s) :
                       Char(s, i) \notin chars /\ \A j \in 1..(i - 1) : Char(s, j) \in chars,
                Len(s))

RStripOf(s, chars) ==
    IF \A i \in 1..Len(s) : Char(s, i) \in chars THEN ""
    ELSE SubSeq(s, 1,
                CHOOSE i \in 1..Len(s) :
                    Char(s, i) \notin chars /\ \A j \in (i + 1)..Len(s) : Char(s, j) \in chars)

\* s.lstrip()
LStrip(s) == LStripOf(s, Whitespace)

\* s.rstrip()
RStrip(s) == RStripOf(s, Whitespace)

\* s.strip()
Strip(s) == LStrip(RStrip(s))

\* s.startswith(p)
StartsWith(s, p) == Len(s) >= Len(p) /\ SubSeq(s, 1, Len(p)) = p

\* The first position of s that holds one of chars, 0 when there is none
Find(s, chars) ==
    IF \A i \in 1..Len(s) : Char(s, i) \notin chars THEN 0
    ELSE CHOOSE i \in 1..Len(s) :
            Char(s, i) \in chars /\ \A j \in 1..(i - 1) : Char(s, j) \notin chars

\* s.find(old) + 1: the first position of s where old starts, 0 when
\* there is none
FindText(s, old) ==
    IF \A i \in 1..(Len(s) - Len(old) + 1) : SubSeq(s, i, i + Len(old) - 1) # old THEN 0
    ELSE CHOOSE i \in 1..(Len(s) - Len(old) + 1) :
            /\ SubSeq(s, i, i + Len(old) - 1) = old
            /\ \A j \in 1..(i - 1) : SubSeq(s, j, j + Len(old) - 1) # old

\* s.replace(old, ''): s without the occurrences of old, taken from the
\* left
RECURSIVE Replace(_, _)
Replace(s, old) ==
    IF FindText(s, old) = 0 THEN s
    ELSE SubSeq(s, 1, FindText(s, old) - 1)
         \o Replace(SubSeq(s, FindText(s, old) + Len(old), Len(s)), old)

\* The length of the first word of a string that starts with one
WordLen(s) == IF Find(s, Whitespace) = 0 THEN Len(s) ELSE Find(s, Whitespace) - 1

\* s.split()
RECURSIVE Split(_)
Split(s) ==
    LET t == LStrip(s)
    IN  IF t = "" THEN <<>>
        ELSE <<SubSeq(t, 1, WordLen(t))>> \o Split(SubSeq(t, WordLen(t) + 1, Len(t)))

\* s.lower() for the letters of inf, infinity and nan
LowerChar(c) ==
    CASE c = "I" -> "i" [] c = "N" -> "n" [] c = "F" -> "f" [] c = "T" -> "t"
      [] c = "Y" -> "y" [] c = "A" -> "a" [] OTHER -> c

RECURSIVE LowerFrom(_, _, _)
LowerFrom(s, lo, hi) ==
    IF lo > hi THEN ""
    ELSE IF lo = hi THEN LowerChar(Char(s, lo))
    ELSE LowerFrom(s, lo, (lo + hi) \div 2) \o LowerFrom(s, (lo + hi) \div 2 + 1, hi)

Lower(s) == LowerFrom(s, 1, Len(s))

\* ------------------------------------------------------------------------
\* float(token) and int(token) on a token of ASCII characters
\* ------------------------------------------------------------------------
Digits == {"0", "1", "2", "3", "4", "5", "6", "7", "8", "9"}

DigitValue(c) == CHOOSE d \in 0..9 : Char("0123456789", d + 1) = c

\* digit (["_"] digit)*
DigitPart(s) ==
    /\ s # "" /\ Head(s) \in Digits /\ Char(s, Len(s)) \in Digits
    /\ \A i \in 1..Len(s) : Char(s, i) \in Digits \cup {"_"}
    /\ \A i \in 1..(Len(s) - 1) : ~(Char(s, i) = "_" /\ Char(s, i + 1) = "_")

\* The token without its sign, and whether the sign is a minus
Unsigned(s) == IF s # "" /\ Head(s) \in {"+", "-"} THEN Tail(s) ELSE s
Negative(s) == s # "" /\ Head(s) = "-"

\* The parts of an unsigned decimal: before and after the first e or E,
\* and the mantissa before and after its point
Mantissa(u) == IF Find(u, {"e", "E"}) = 0 THEN u ELSE SubSeq(u, 1, Find(u, {"e", "E"}) - 1)
Exponent(u) == SubSeq(u, Find(u, {"e", "E"}) + 1, Len(u))
IntPart(m) == IF Find(m, {"."}) = 0 THEN m ELSE SubSeq(m, 1, Find(m, {"."}) - 1)
FracPart(m) == IF Find(m, {"."}) = 0 THEN "" ELSE SubSeq(m, Find(m, {"."}) + 1, Len(m))

MantissaSyntax(m) ==
    IF Find(m, {"."}) = 0 THEN DigitPart(m)
    ELSE /\ IntPart(m) = "" \/ DigitPart(IntPart(m))
         /\ FracPart(m) = "" \/ DigitPart(FracPart(m))
         /\ ~(IntPart(m) = "" /\ FracPart(m) = "")

\* The characters float() and int() strip from the ends of a token: the
\* blanks of str.strip() but for the separators \x1c to \x1f
NumberBlanks == Whitespace \ {"", "", "", ""}

\* The token without the blanks at its ends
NumberText(tok) ==
    IF \A i \in 1..Len(tok) : Char(tok, i) \in NumberBlanks THEN ""
    ELSE SubSeq(tok,
                CHOOSE i \in 1..Len(tok) :
                    Char(tok, i) \notin NumberBlanks
                    /\ \A j \in 1..(i - 1) : Char(tok, j) \in NumberBlanks,
                CHOOSE i \in 1..Len(tok) :
                    Char(tok, i) \notin NumberBlanks
                    /\ \A j \in (i + 1)..Len(tok) : Char(tok, j) \in NumberBlanks)

\* An unsigned text that float() reads: a decimal literal, inf, infinity
\* or nan
DecimalSyntax(u) ==
    \/ Lower(u) \in {"inf", "infinity", "nan"}
    \/ /\ MantissaSyntax(Mantissa(u))
       /\ Find(u, {"e", "E"}) = 0 \/ DigitPart(Unsigned(Exponent(u)))

\* The characters of s from lo to hi without the underscores
RECURSIVE DigitsFrom(_, _, _)
DigitsFrom(s, lo, hi) ==
    IF lo > hi THEN ""
    ELSE IF lo = hi THEN (IF Char(s, lo) = "_" THEN "" ELSE Char(s, lo))
    ELSE DigitsFrom(s, lo, (lo + hi) \div 2) \o DigitsFrom(s, (lo + hi) \div 2 + 1, hi)

\* A digit string without its underscores
DigitsOf(s) == DigitsFrom(s, 1, Len(s))

\* float(tok) returns
FloatSyntax(tok) == DecimalSyntax(Unsigned(NumberText(tok)))

\* The most digits int() converts: the default of sys.int_max_str_digits
IntMaxStrDigits == 4300

\* int(tok) returns: the token is a decimal integer literal of
\* IntMaxStrDigits digits at most, the leading zeros counted, the sign,
\* the underscores and the blanks at the ends not
IntSyntax(tok) ==
    /\ DigitPart(Unsigned(NumberText(tok)))
    /\ Len(DigitsOf(Unsigned(NumberText(tok)))) <= IntMaxStrDigits

\* A digit string without its leading zeros, trailing zeros
StripZerosLeft(s) == LStripOf(s, {"0"})
StripZerosRight(s) == RStripOf(s, {"0"})

\* The number written by at most nine digits
RECURSIVE Number(_)
Number(s) ==
    IF s = "" THEN 0 ELSE 10 * Number(SubSeq(s, 1, Len(s) - 1)) + DigitValue(Char(s, Len(s)))

\* The number written by a digit string; one of more than cap digits
\* counts as the largest number of cap digits
Capped(s, cap) ==
    IF Len(StripZerosLeft(s)) > cap THEN Number(SubSeq("999999999", 1, cap))
    ELSE Number(StripZerosLeft(s))

\* An int of more than nine digits, by its sign and its digits
BigInt(negative, digits) == <<"int", negative, digits>>

\* The int written by a sign and digits without leading zeros
IntOf(negative, digits) ==
    IF Len(digits) > 9 THEN BigInt(negative, digits)
    ELSE (IF negative THEN -1 ELSE 1) * Number(digits)

\* int(tok) for a token of IntSyntax
handle_int(tok) ==
    IntOf(Negative(NumberText(tok)), StripZerosLeft(DigitsOf(Unsigned(NumberText(tok)))))

RECURSIVE Pow10(_)
Pow10(n) == IF n = 0 THEN 1 ELSE 10 * Pow10(n - 1)

Max(a, b) == IF a >= b THEN a ELSE b
Min(a, b) == IF a <= b THEN a ELSE b

\* ------------------------------------------------------------------------
\* Natural numbers of any size, as the sequence of their decimal digits
\* (<<>> is 0), for the rounding of float() to the nearest double
\* ------------------------------------------------------------------------
Big(s) == [i \in 1..Len(s) |-> DigitValue(Char(s, i))]

Digit(x, i) == IF i \in 1..Len(x) THEN x[i] ELSE 0

\* x without its leading zeros
Trim(x) ==
    IF \A i \in 1..Len(x) : x[i] = 0 THEN <<>>
    ELSE SubSeq(x, CHOOSE i \in 1..Len(x) : x[i] # 0 /\ \A j \in 1..(i - 1) : x[j] = 0, Len(x))

\* x with its trailing zeros cut off
TrimRight(x) ==
    IF \A i \in 1..Len(x) : x[i] = 0 THEN <<>>
    ELSE SubSeq(x, 1, CHOOSE i \in 1..Len(x) : x[i] # 0 /\ \A j \in (i + 1)..Len(x) : x[j] = 0)

Zeros(n) == [i \in 1..n |-> 0]

\* 2 * x: a digit takes a carry when the digit after it is 5 or more
Double(x) ==
    Trim([i \in 1..(Len(x) + 1) |->
             (2 * Digit(x, i - 1) + (IF Digit(x, i) >= 5 THEN 1 ELSE 0)) % 10])

\* x \div 2: a digit takes 5 when the digit before it is odd
Halve(x) ==
    Trim([i \in 1..Len(x) |-> x[i] \div 2 + (IF Digit(x, i - 1) % 2 = 1 THEN 5 ELSE 0)])

Odd(x) == Len(x) > 0 /\ x[Len(x)] % 2 = 1

\* x + 1
Inc(x) ==
    IF \A i \in 1..Len(x) : x[i] = 9 THEN <<1>> \o Zeros(Len(x))
    ELSE [i \in 1..Len(x) |->
             IF \A j \in (i + 1)..Len(x) : x[j] = 9
             THEN (IF \A j \in i..Len(x) : x[j] = 9 THEN 0 ELSE x[i] + 1)
             ELSE x[i]]

\* x < y, for x and y without leading zeros
BigLess(x, y) ==
    \/ Len(x) < Len(y)
    \/ /\ Len(x) = Len(y)
       /\ \E i \in 1..Len(x) : x[i] < y[i] /\ \A j \in 1..(i - 1) : x[j] = y[j]

BigEqual(x, y) == Len(x) = Len(y) /\ \A i \in 1..Len(x) : x[i] = y[i]

\* x * 2^k and x * 5^k
RECURSIVE TimesPow2(_, _)
TimesPow2(x, k) ==
    IF k = 0 THEN x
    ELSE IF k = 1 THEN Double(x)
    ELSE LET half == TimesPow2(x, k \div 2)
         IN  IF Len(half) = 0 THEN half ELSE TimesPow2(half, k - k \div 2)

RECURSIVE TimesPow5(_, _)
TimesPow5(x, k) ==
    IF k = 0 THEN x
    ELSE IF k = 1 THEN Halve(x \o <<0>>)
    ELSE LET half == TimesPow5(x, k \div 2)
         IN  IF Len(half) = 0 THEN half ELSE TimesPow5(half, k - k \div 2)

\* A number cut off below some place: the part kept and whether the part
\* cut off was more than nothing
Cut(x, sticky) == [x |-> x, sticky |-> sticky]

\* c.x \div 2^k, one more bit cut off at each halving
RECURSIVE HalveTimes(_, _)
HalveTimes(c, k) ==
    IF k = 0 THEN c
    ELSE IF k = 1 THEN Cut(Halve(c.x), c.sticky \/ Odd(c.x))
    ELSE LET half == HalveTimes(c, k \div 2)
         IN  IF Len(half.x) = 0 THEN half ELSE HalveTimes(half, k - k \div 2)

\* A lower bound of the number of bits of x, less one: 2^BitsBelow(x) <= x
BitsBelow(x) == ((Len(x) - 1) * 33219) \div 10000

Two52 == Big("4503599627370496")
Two53 == Big("9007199254740992")
Two54 == Big("18014398509481984")

\* c halved until it is below 2^54, after h halvings already made
RECURSIVE Below54(_, _)
Below54(c, h) ==
    IF BigLess(c.x, Two54) THEN [x |-> c.x, sticky |-> c.sticky, h |-> h]
    ELSE Below54(Cut(Halve(c.x), c.sticky \/ Odd(c.x)), h + 1)

\* A double that is not 0.0, inf or nan, without its sign: q * 2^e with
\* 2^52 <= q < 2^53, or q < 2^52 and e = -1074
Double64(q, e) == IF BigEqual(q, Two53) THEN [q |-> Two52, e |-> e + 1] ELSE [q |-> q, e |-> e]

\* Round to nearest, ties to even, of c.x * 2^(c.h - s) with the last bit
\* of c.x as the bit to round off
RoundBit(c, s) ==
    Double64(IF Odd(c.x) /\ (c.sticky \/ Odd(Halve(c.x))) THEN Inc(Halve(c.x)) ELSE Halve(c.x),
             c.h + 1 - s)

\* The double nearest to c.x * 2^(-s), c.x of 54 bits or more unless
\* s = 1075
RoundCut(c, s) ==
    RoundBit(Below54(HalveTimes(c, Max(0, BitsBelow(c.x) - 53)), Max(0, BitsBelow(c.x) - 53)), s)

\* y \div 10^j with the digits cut off
QuotientCut(y, j) ==
    Cut(SubSeq(y, 1, Len(y) - j), \E i \in 1..Len(y) : i > Len(y) - j /\ y[i] # 0)

\* The double nearest to y / (10^j * 2^s)
RoundQuotient(y, j, s) == RoundCut(QuotientCut(y, j), s)

\* The power of 2 that brings n / 10^j to 54 bits or more, at most 1075:
\* the last bit of a double is worth 2^-1074
ScaleBits(n, j) == Min(Max(0, (j * 33220) \div 10000 + 54 - BitsBelow(n)), 1075)

\* The double nearest to n / 10^j
NearestQuotient(n, j) == RoundQuotient(TimesPow2(n, ScaleBits(n, j)), j, ScaleBits(n, j))

\* The double nearest to m * 10^e10, for a digit string m that is not 0:
\* q * 2^e, where q = 0 is 0.0 and e > 971 is inf
Nearest(m, e10) == NearestQuotient(Big(m) \o Zeros(Max(e10, 0)), Max(-e10, 0))

\* The digits d and the power of ten p of a double: d.x * 10^d.p
DoubleDigits(d) ==
    IF d.e >= 0 THEN [x |-> TimesPow2(d.q, d.e), p |-> 0]
    ELSE [x |-> TimesPow5(d.q, -d.e), p |-> d.e]

\* d.x * 10^d.p rounded to n digits, ties to even
RoundDigits(d, n) ==
    IF Len(d.x) <= n THEN d
    ELSE [x |-> IF \/ d.x[n + 1] > 5
                   \/ /\ d.x[n + 1] = 5
                      /\ \/ d.x[n] % 2 = 1
                         \/ \E i \in (n + 2)..Len(d.x) : d.x[i] # 0
                THEN Inc(SubSeq(d.x, 1, n)) ELSE SubSeq(d.x, 1, n),
          p |-> d.p + Len(d.x) - n]

\* The text of the digits of x
RECURSIVE Text(_, _, _)
Text(x, lo, hi) ==
    IF lo > hi THEN ""
    ELSE IF lo = hi THEN Char("0123456789", x[lo] + 1)
    ELSE Text(x, lo, (lo + hi) \div 2) \o Text(x, (lo + hi) \div 2 + 1, hi)

\* d.x * 10^d.p without the zeros at the end of d.x
Lowest(d) == [m |-> Text(TrimRight(d.x), 1, Len(TrimRight(d.x))),
              e10 |-> d.p + Len(d.x) - Len(TrimRight(d.x))]

\* The decimal of n digits nearest to digits.x * 10^digits.p
Shortest(digits, n) == Lowest(RoundDigits(digits, n))

SameDouble(a, b) == BigEqual(a.q, b.q) /\ a.e = b.e

\* float() of the decimal t is the double d
RoundTrips(d, t) == SameDouble(Nearest(t.m, t.e10), d)

\* A float that is no ratio of two small integers: plus or minus
\* 0.digits * 10^point, digits not ending in 0; inf, -inf and nan
Decimal(negative, digits, point) == <<"float", negative, digits, point>>
Infinity(negative) == <<IF negative THEN "-inf" ELSE "inf">>
NaN == <<"nan">>

\* The double that plus or minus m * 10^e10 names: the double nearest to
\* it. Different decimals of 15 digits or fewer name different doubles.
Named(neg, m, e10) ==
    IF e10 >= 0 /\ Len(m) + e10 <= 9
    THEN R((IF neg THEN -1 ELSE 1) * Number(m) * Pow10(e10))
    ELSE IF e10 < 0 /\ e10 >= -9 /\ Len(m) <= 9
    THEN Rat((IF neg THEN -1 ELSE 1) * Number(m), Pow10(-e10))
    ELSE Decimal(neg, m, Len(m) + e10)

\* The number of digits of the name of the double d, by whether float()
\* reads the decimal of 15 and of 16 digits as d
NameChoice(trips) == IF trips[15] THEN 15 ELSE IF trips[16] THEN 16 ELSE 17

NamedBy(neg, t) == Named(neg, t.m, t.e10)

\* The name of the double d of the digits given: the decimal of the
\* fewest digits, 15 or more, that float() reads as d
NameFrom(neg, d, digits) ==
    NamedBy(neg, Shortest(digits,
                          NameChoice([n \in 15..16 |-> RoundTrips(d, Shortest(digits, n))])))

NameOf(neg, d) == NameFrom(neg, d, DoubleDigits(d))

\* The float a double is: 0.0 and inf at the ends of the range
FloatOf(neg, d) ==
    IF d.q = <<>> THEN Zero
    ELSE IF d.e > 971 THEN Infinity(neg)
    ELSE NameOf(neg, d)

\* The decimal exponent of an unsigned decimal literal: the number after
\* its e or E, 0 when it has none. An exponent of more than six digits
\* counts as 999999: with a mantissa of fewer than 999000 digits the float
\* is 0.0 or inf either way.
ExponentValue(u) ==
    IF Find(u, {"e", "E"}) = 0 THEN 0
    ELSE (IF Negative(Exponent(u)) THEN -1 ELSE 1) * Capped(DigitsOf(Unsigned(Exponent(u))), 6)

\* The digits of a mantissa, without its point and its leading zeros
Significand(m) == StripZerosLeft(DigitsOf(IntPart(m)) \o DigitsOf(FracPart(m)))

\* The float nearest to plus or minus 0.m * 10^point = m * 10^e10, for
\* digits m that do not end in 0. A decimal of 15 digits or fewer well
\* inside the range of the doubles names its double; any other is rounded
\* to the nearest double, which is inf from 2^1024 - 2^970 on.
Rounded(neg, m, e10, point) ==
    IF m = "" THEN Zero
    ELSE IF point > 310 THEN Infinity(neg)
    ELSE IF point < -324 THEN Zero
    ELSE IF Len(m) <= 15 /\ point >= -290 /\ point <= 290 THEN Named(neg, m, e10)
    ELSE FloatOf(neg, Nearest(m, e10))

\* The float of plus or minus m * 10^e10, for digits m that do not end in 0
Normal(neg, m, e10) == Rounded(neg, m, e10, Len(m) + e10)

\* The float of plus or minus sig * 10^e, for digits sig
Scaled(neg, sig, e) == Normal(neg, StripZerosRight(sig), e + Len(sig) - Len(StripZerosRight(sig)))

\* float() of an unsigned text of DecimalSyntax and its sign
FloatOfText(neg, u) ==
    IF Lower(u) \in {"inf", "infinity"} THEN Infinity(neg)
    ELSE IF Lower(u) = "nan" THEN NaN
    ELSE Scaled(neg, Significand(Mantissa(u)),
                ExponentValue(u) - Len(DigitsOf(FracPart(Mantissa(u)))))

\* float(tok) for a token of FloatSyntax: the double nearest to the
\* decimal literal
FloatValue(tok) == FloatOfText(Negative(NumberText(tok)), Unsigned(NumberText(tok)))

\* ------------------------------------------------------------------------
\* The arithmetic of doubles on floats by their names: *, /, +, -, <, <=,
\* abs, math.sqrt and math.pow as afedat.py uses them. Each operation
\* rounds its exact result to the nearest double, ties to even.
\* ------------------------------------------------------------------------
\* The digits of a natural number
RECURSIVE IntBig(_)
IntBig(n) == IF n = 0 THEN <<>> ELSE IntBig(n \div 10) \o <<n % 10>>

\* x with zeros in front, n digits long
Pad(x, n) == Zeros(n - Len(x)) \o x

\* a + b for a and b of n digits each: a place takes a carry when a place
\* after it sums to 10 or more and the places between sum to 9
AddDigits(a, b, n) ==
    Trim([i \in 1..n |->
             (a[i] + b[i]
              + (IF \E j \in (i + 1)..n :
                       a[j] + b[j] >= 10 /\ \A k \in (i + 1)..(j - 1) : a[k] + b[k] = 9
                 THEN 1 ELSE 0)) % 10])

\* x + y
BigAdd(x, y) ==
    AddDigits(Pad(x, Max(Len(x), Len(y)) + 1), Pad(y, Max(Len(x), Len(y)) + 1),
              Max(Len(x), Len(y)) + 1)

\* a - b for a >= b of n digits each: a place gives a borrow when a place
\* after it is short and the places between are level
SubDigits(a, b, n) ==
    Trim([i \in 1..n |->
             (a[i] - b[i] + 10
              - (IF \E j \in (i + 1)..n :
                       a[j] < b[j] /\ \A k \in (i + 1)..(j - 1) : a[k] = b[k]
                 THEN 1 ELSE 0)) % 10])

\* x - y, for x >= y
BigSub(x, y) == SubDigits(x, Pad(y, Len(x)), Len(x))

\* x * t, for a small natural number t
RECURSIVE MulSmall(_, _)
MulSmall(x, t) ==
    IF t = 0 THEN <<>>
    ELSE IF t % 2 = 0 THEN Double(MulSmall(x, t \div 2))
    ELSE BigAdd(Double(MulSmall(x, t \div 2)), x)

\* acc * 10^(Len(y) - i + 1) + x * (the digits of y from place i on)
RECURSIVE MulFrom(_, _, _, _)
MulFrom(x, y, i, acc) ==
    IF Len(acc) >= 0 /\ i > Len(y) THEN acc
    ELSE MulFrom(x, y, i + 1, BigAdd(acc \o <<0>>, MulSmall(x, y[i])))

\* x * y
BigMul(x, y) == MulFrom(x, y, 1, <<>>)

\* x^n
RECURSIVE BigPow(_, _)
BigPow(x, n) == IF n = 0 THEN <<1>> ELSE BigMul(BigPow(x, n - 1), x)

\* The multiples d * 0 to d * 9 of d, d * t at place t + 1
Multiples(d) == SubSeq([t \in 1..10 |-> MulSmall(d, t - 1)], 1, 10)

\* Long division from place i of n on by the number of the multiples m,
\* with the quotient q and the remainder r of the places before: the
\* quotient and the remainder
RECURSIVE DivStep(_, _, _, _, _)
RECURSIVE DivDigit(_, _, _, _, _)
RECURSIVE DivTake(_, _, _, _, _, _)
DivStep(n, m, i, q, r) ==
    IF Len(q) >= 0 /\ i > Len(n) THEN [q |-> Trim(q), r |-> r]
    ELSE DivDigit(n, m, i, q, Trim(r \o <<n[i]>>))

DivDigit(n, m, i, q, r) ==
    DivTake(n, m, i, q, r,
            CHOOSE t \in 0..9 : ~BigLess(r, m[t + 1]) /\ (t = 9 \/ BigLess(r, m[t + 2])))

DivTake(n, m, i, q, r, t) == DivStep(n, m, i + 1, q \o <<t>>, BigSub(r, m[t + 1]))

\* n \div d and n % d, for d > 0
BigDivMod(n, d) == DivStep(n, Multiples(d), 1, <<>>, <<>>)

\* The whole part of the square root of n > 0, by Newton's iteration from
\* above
RECURSIVE Newton(_, _)
RECURSIVE NewtonNext(_, _, _)
Newton(n, x) == NewtonNext(n, x, Halve(BigAdd(x, BigDivMod(n, x).q)))

NewtonNext(n, x, y) == IF BigLess(y, x) THEN Newton(n, y) ELSE x

ISqrt(n) == Newton(n, <<1>> \o Zeros((Len(n) + 1) \div 2))

\* The double nearest to c.x * 2^e, for a cut c.x of 54 bits or more
Raised(d, e) == [q |-> d.q, e |-> d.e + e]

RoundWide(c, e) ==
    Raised(RoundCut(HalveTimes(c, Max(0, -e - 1075)), Min(Max(-e, 0), 1075)), Max(e, 0))

\* The bits to add to c.x to have 54 bits or more; a number with a part
\* cut off has them already
Widened(c) == IF c.sticky THEN 0 ELSE Max(0, 60 - BitsBelow(c.x))

\* The double nearest to c.x * 2^e, c.x not 0
RoundScaled(c, e) == RoundWide(Cut(TimesPow2(c.x, Widened(c)), c.sticky), e - Widened(c))

\* n \div d with the remainder as the part cut off
DivCut(r) == Cut(r.q, Len(r.r) > 0)

\* The powers of 2 up to 2^30
RECURSIVE Log2(_)
Log2(d) == IF d <= 1 THEN 0 ELSE 1 + Log2(d \div 2)

RECURSIVE IntPow(_, _)
IntPow(b, n) == IF n = 0 THEN 1 ELSE b * IntPow(b, n - 1)

IsPow2(d) == d >= 1 /\ IntPow(2, Log2(d)) = d

\* A float that is not 0.0, inf or nan, as a number cut off times a power
\* of 2: the ratio or the decimal that names it
ExactCut(x) ==
    IF Len(x) = 4
    THEN QuotientCut(TimesPow2(Big(x[3]) \o Zeros(Max(x[4] - Len(x[3]), 0)),
                               ScaleBits(Big(x[3]) \o Zeros(Max(x[4] - Len(x[3]), 0)),
                                         Max(Len(x[3]) - x[4], 0))),
                     Max(Len(x[3]) - x[4], 0))
    ELSE IF IsPow2(x[2]) THEN Cut(IntBig(Abs(x[1])), FALSE)
    ELSE DivCut(BigDivMod(TimesPow2(IntBig(Abs(x[1])), 120), IntBig(x[2])))

ExactScale(x) ==
    IF Len(x) = 4
    THEN -ScaleBits(Big(x[3]) \o Zeros(Max(x[4] - Len(x[3]), 0)), Max(Len(x[3]) - x[4], 0))
    ELSE IF IsPow2(x[2]) THEN -Log2(x[2])
    ELSE -120

\* The magnitude of a float as a double q * 2^e: the double nearest to
\* the ratio or the decimal that names it; q = <<>> for 0.0, inf and nan
Exact(x) ==
    IF Len(x) = 1 \/ x = Zero THEN [q |-> <<>>, e |-> 0]
    ELSE RoundScaled(ExactCut(x), ExactScale(x))

\* The doubles of two floats
Doubles(a, b) == SubSeq([i \in 1..2 |-> Exact(IF i = 1 THEN a ELSE b)], 1, 2)

\* The sign of a float, 0 for 0.0 and for nan
FloatSign(x) ==
    IF x = NaN THEN 0
    ELSE IF Len(x) = 1 THEN (IF x = Infinity(TRUE) THEN -1 ELSE 1)
    ELSE IF Len(x) = 4 THEN (IF x[2] THEN -1 ELSE 1)
    ELSE IF x[1] < 0 THEN -1 ELSE IF x[1] > 0 THEN 1 ELSE 0

\* A ratio of two integers of 14 bits with a power of 2 below: the sums,
\* products and quotients of two of them are within the integers, and
\* exact in doubles when they are ratios with a power of 2 below
SmallBound == 16384
Small(x) == Len(x) = 2 /\ Abs(x[1]) <= SmallBound /\ x[2] <= SmallBound /\ IsPow2(x[2])

\* The ratio r is the name of a double: a power of 2 up to 2^9 below, and
\* nine digits at most as a decimal
Plain(r) ==
    /\ r[2] <= 512 /\ IsPow2(r[2])
    /\ Abs(r[1]) <= 999999999 \div IntPow(5, Log2(r[2]))

\* -x and abs(x)
RNeg(a) ==
    IF Len(a) = 2 THEN <<-a[1], a[2]>>
    ELSE IF Len(a) = 4 THEN Decimal(~a[2], a[3], a[4])
    ELSE IF a = NaN THEN NaN
    ELSE Infinity(a = Infinity(FALSE))

RAbs(a) == IF FloatSign(a) < 0 THEN RNeg(a) ELSE a

\* x * y of the doubles p of x and y that are not 0.0, inf or nan
MulExact(neg, p) ==
    FloatOf(neg, RoundScaled(Cut(BigMul(p[1].q, p[2].q), FALSE), p[1].e + p[2].e))

\* a * b of floats that are not both small
FloatMul(a, b) ==
    IF a = NaN \/ b = NaN THEN NaN
    ELSE IF Len(a) = 1 \/ Len(b) = 1
    THEN (IF FloatSign(a) * FloatSign(b) = 0 THEN NaN
          ELSE Infinity(FloatSign(a) * FloatSign(b) < 0))
    ELSE IF a = Zero \/ b = Zero THEN Zero
    ELSE MulExact(FloatSign(a) # FloatSign(b), Doubles(a, b))

\* a * b
RMul(a, b) ==
    IF Small(a) /\ Small(b) /\ Plain(Rat(a[1] * b[1], a[2] * b[2]))
    THEN Rat(a[1] * b[1], a[2] * b[2])
    ELSE FloatMul(a, b)

\* x / y of the doubles p of x and y that are not 0.0, inf or nan
DivExact(neg, p) ==
    FloatOf(neg, RoundScaled(DivCut(BigDivMod(TimesPow2(p[1].q, 110), p[2].q)),
                             p[1].e - p[2].e - 110))

\* a / b of floats that are not both small, b not 0.0
FloatDiv(a, b) ==
    IF a = NaN \/ b = NaN \/ (Len(a) = 1 /\ Len(b) = 1) THEN NaN
    ELSE IF Len(a) = 1 THEN Infinity(FloatSign(a) * FloatSign(b) < 0)
    ELSE IF Len(b) = 1 \/ a = Zero THEN Zero
    ELSE DivExact(FloatSign(a) # FloatSign(b), Doubles(a, b))

\* a / b, for b not 0.0
RDiv(a, b) ==
    IF Small(a) /\ Small(b) /\ Plain(Rat(a[1] * b[2], a[2] * b[1]))
    THEN Rat(a[1] * b[2], a[2] * b[1])
    ELSE FloatDiv(a, b)

\* The float of the sum s * 2^e
Summed(neg, s, e) ==
    IF Len(s) = 0 THEN Zero ELSE FloatOf(neg, RoundScaled(Cut(s, FALSE), e))

\* The sum of plus or minus x * 2^e and plus or minus y * 2^e
AddAligned(xneg, x, yneg, y, e) ==
    Summed(IF xneg = yneg \/ BigLess(y, x) THEN xneg ELSE yneg,
           IF xneg = yneg THEN BigAdd(x, y)
           ELSE IF BigLess(x, y) THEN BigSub(y, x) ELSE BigSub(x, y),
           e)

\* a + b of the doubles p of a and b: a double more than 64 bits below
\* the other does not move the sum
AddExact(a, b, p) ==
    IF p[1].e - p[2].e > 64 THEN a
    ELSE IF p[2].e - p[1].e > 64 THEN b
    ELSE AddAligned(FloatSign(a) < 0, TimesPow2(p[1].q, p[1].e - Min(p[1].e, p[2].e)),
                    FloatSign(b) < 0, TimesPow2(p[2].q, p[2].e - Min(p[1].e, p[2].e)),
                    Min(p[1].e, p[2].e))

\* a + b of floats that are not both small
FloatAdd(a, b) ==
    IF a = NaN \/ b = NaN THEN NaN
    ELSE IF Len(a) = 1 THEN (IF Len(b) = 1 /\ a # b THEN NaN ELSE a)
    ELSE IF Len(b) = 1 \/ a = Zero THEN b
    ELSE IF b = Zero THEN a
    ELSE AddExact(a, b, Doubles(a, b))

\* a + b and a - b
RAdd(a, b) ==
    IF Small(a) /\ Small(b) /\ Plain(Rat(a[1] * b[2] + b[1] * a[2], a[2] * b[2]))
    THEN Rat(a[1] * b[2] + b[1] * a[2], a[2] * b[2])
    ELSE FloatAdd(a, b)

RSub(a, b) == RAdd(a, RNeg(b))

\* x < y of the doubles p of x and y, without their signs
MagLess(p) == p[1].e < p[2].e \/ (p[1].e = p[2].e /\ BigLess(p[1].q, p[2].q))

\* a < b of floats that are not both small
FloatLess(a, b) ==
    IF a = NaN \/ b = NaN \/ a = b THEN FALSE
    ELSE IF FloatSign(a) # FloatSign(b) THEN FloatSign(a) < FloatSign(b)
    ELSE IF Len(a) = 1 THEN FloatSign(a) < 0
    ELSE IF Len(b) = 1 THEN FloatSign(b) > 0
    ELSE MagLess(Doubles(IF FloatSign(a) > 0 THEN a ELSE b, IF FloatSign(a) > 0 THEN b ELSE a))

\* a < b and a <= b: false of nan. Different ratios name different doubles
\* in the order of the ratios.
RLt(a, b) ==
    IF Small(a) /\ Small(b) THEN a[1] * b[2] < b[1] * a[2] ELSE FloatLess(a, b)

RLe(a, b) ==
    IF Small(a) /\ Small(b) THEN a[1] * b[2] <= b[1] * a[2]
    ELSE a # NaN /\ b # NaN /\ (a = b \/ FloatLess(a, b))

\* The root of a perfect square up to SmallBound
HasRoot(n) == \E r \in 0..128 : r * r = n
Sqrt(n) == CHOOSE r \in 0..128 : r * r = n

\* The square root of the double d, by the whole part r of the root of
\* n = d.q * 2^t with t = 110 or 111 of the parity of d.e
RootCut(n, r, e) == FloatOf(FALSE, RoundScaled(Cut(r, ~BigEqual(BigMul(r, r), n)), e))
RootOf(n, e) == RootCut(n, ISqrt(n), e)
SqrtExact(d) == RootOf(TimesPow2(d.q, 110 + (d.e % 2)), (d.e - 110 - (d.e % 2)) \div 2)

\* math.sqrt(x) for x that is not below 0.0
RSqrt(x) ==
    IF Small(x) /\ HasRoot(x[1]) /\ HasRoot(x[2]) THEN <<Sqrt(x[1]), Sqrt(x[2])>>
    ELSE IF Len(x) = 1 \/ x = Zero THEN x
    ELSE SqrtExact(Exact(x))

\* A float that the arithmetic of the model does not settle, as the
\* expression that computes it
Term(op, a, b) == <<op, a, b>>

\* What math.pow gives in place of a float when the power is above the
\* doubles: it raises OverflowError
PowOverflow == <<"OverflowError">>

\* The pow of the C library is within one unit in the last place of the
\* power: it returns a power that is a double, and may round any other
\* either way. A power the model does not compute is the term of it when
\* it is within the doubles for certain, and the term of either outcome
\* when it is too near 2^1024 to tell.
PowTerm(x, e) == Term("pow", x, e)
PowEither(x, e) == Term("pow or OverflowError", x, e)

\* r * 2^e is the double d
IsDouble(r, e, d) ==
    IF d.e >= e THEN BigEqual(r, TimesPow2(d.q, d.e - e))
    ELSE BigEqual(TimesPow2(r, e - d.e), d.q)

\* math.pow(x, e) for a power between d and 2 * d, d a double without the
\* bound of its exponent: from r * 2^k, which is the power if exact holds
PowOf(r, k, exact, d, x, e) ==
    IF exact /\ IsDouble(r, k, d)
    THEN (IF d.e > 971 THEN PowOverflow ELSE FloatOf(FALSE, d))
    ELSE IF d.e >= 973 THEN PowOverflow
    ELSE IF d.e <= 970 THEN PowTerm(x, e)
    ELSE PowEither(x, e)

\* math.pow(x, e) for the power that is the root of p * 4^k, r being the
\* whole part of the root of p
PowRoot(p, r, k, x, e) ==
    PowOf(r, k, BigEqual(BigMul(r, r), p), RoundScaled(Cut(r, FALSE), k), x, e)

\* math.pow(x, e) for e = h / 2 with a whole h > 0, d being the double of
\* x: the power is the root of d.q^h * 2^(h * d.e)
PowHalves(d, h, x, e) ==
    PowRoot(TimesPow2(BigPow(d.q, h), (h * d.e) % 2),
            IF h % 2 = 0 THEN BigPow(d.q, h \div 2)
            ELSE ISqrt(TimesPow2(BigPow(d.q, h), (h * d.e) % 2)),
            (h * d.e - ((h * d.e) % 2)) \div 2, x, e)

\* The size of the double d times k is bound or more
AtLeast(d, k, bound) ==
    ~BigLess(BigMul(TimesPow2(d.q, Max(d.e, 0)), IntBig(k)),
             TimesPow2(IntBig(bound), Max(-d.e, 0)))

\* math.pow(x, e) by the whole numbers lo <= hi that the size of log2(x)
\* is between, for x and e that bring the power above 1, d being the
\* double of the size of e: above the doubles for certain when the size of
\* e times lo is 1025 or more, within them when it times hi is below 1023
PowBetween(lo, hi, d, x, e) ==
    IF AtLeast(d, lo, 1025) THEN PowOverflow
    ELSE IF ~AtLeast(d, hi, 1023) THEN PowTerm(x, e)
    ELSE PowEither(x, e)

\* The double d of x is 1.0 or more
AboveOne(d) == d.e >= -52

\* math.pow(x, e) for any other finite x and e, p being the doubles of x
\* and of the size of e: 2^(d.e + 52) <= x < 2^(d.e + 53) for the double
\* d of x unless x is below the normal doubles
PowFar(x, e, p) ==
    IF AboveOne(p[1]) = (FloatSign(e) < 0) THEN PowTerm(x, e)
    ELSE PowBetween(IF AboveOne(p[1]) THEN p[1].e + 52 ELSE -(p[1].e + 53),
                    IF AboveOne(p[1]) THEN p[1].e + 53
                    ELSE IF BigLess(p[1].q, Two52) THEN 1075 ELSE -(p[1].e + 52),
                    p[2], x, e)

\* The most halves of an exponent whose power the model computes
MaxHalves == 8

\* The halves of the exponent e, 0 for an exponent that is not a whole
\* number of halves from 1/2 to MaxHalves/2
Halves(e) ==
    IF Len(e) = 2 /\ e[2] \in {1, 2} /\ e[1] >= 1 /\ e[1] * (2 \div e[2]) <= MaxHalves
    THEN e[1] * (2 \div e[2])
    ELSE 0

\* math.pow(x, e) for x > 0 that is not small, p being the doubles of x
\* and of the size of e
PowSlow(x, e, p) ==
    IF x = R(1) \/ e = Zero THEN R(1)
    ELSE IF x = NaN \/ e = NaN THEN NaN
    ELSE IF Len(x) = 1 THEN (IF FloatSign(e) > 0 THEN x ELSE Zero)
    ELSE IF Len(e) = 1
    THEN (IF AboveOne(p[1]) = (FloatSign(e) > 0) THEN Infinity(FALSE) ELSE Zero)
    ELSE IF Halves(e) > 0 THEN PowHalves(p[1], Halves(e), x, e)
    ELSE PowFar(x, e, p)

\* The power of a small x > 0 is within the integers and a name: for
\* h = 2, 4 or 6 halves, and for 1 or 3 halves of a ratio of squares
SmallPower(x, h) ==
    IF h % 2 = 0 THEN <<IntPow(x[1], h \div 2), IntPow(x[2], h \div 2)>>
    ELSE <<IntPow(Sqrt(x[1]), h), IntPow(Sqrt(x[2]), h)>>

HasSmallPower(x, h) ==
    /\ Small(x)
    /\ \/ h \in {2, 4}
       \/ h = 6 /\ x[1] <= 1024 /\ x[2] <= 1024
       \/ h \in {1, 3} /\ HasRoot(x[1]) /\ HasRoot(x[2])
    /\ Plain(SmallPower(x, h))

\* math.pow(x, e) for x > 0: a float, a term or PowOverflow
Pow(x, e) ==
    IF HasSmallPower(x, Halves(e)) THEN SmallPower(x, Halves(e))
    ELSE PowSlow(x, e, Doubles(x, RAbs(e)))

\* A raised exception, by the name of its class
Raise(cls) == [exception |-> cls]
IsException(x) == "exception" \in DOMAIN x

\* ------------------------------------------------------------------------
\* Reader (reader.py)
\* ------------------------------------------------------------------------
\* The members of the enum ElementType, by the keyword of the element line
ElementType_PLR == "ElementType.PLR"
ElementType ==
    [plr |-> ElementType_PLR, dwc |-> "ElementType.DWC", dor |-> "ElementType.DOR",
     cfr |-> "ElementType.CFR", fan |-> "ElementType.FAN", cpf |-> "ElementType.CPF",
     qfr |-> "ElementType.QFR", ckv |-> "ElementType.CKV"]

BadNetworkInput == Raise("BadNetworkInput")

\* Reader(fp, floats): the fields of the new Reader other than fp and the
\* line number; title is None or <<the title text>>
Reader(floats) == [title |-> None, floats |-> floats]

\* self.handle_float(tok): float when the Reader was made with floats,
\* else noop
handle_float(self, tok) ==
    IF ~self.floats THEN tok
    ELSE IF ~FloatSyntax(tok) THEN Raise("ValueError")
    ELSE FloatValue(tok)

\* Some self.handle_float(data[i]) of a record raises
BadFloats(self, data, idx) == self.floats /\ \E i \in idx : ~FloatSyntax(data[i])

\* The fields of a record that hold numbers: self.handle_float(data[idx[i]])
\* under the key keys[i]; a key named twice keeps the later value
Floats(self, data, keys, idx) ==
    [k \in {keys[i] : i \in 1..Len(keys)} |->
        handle_float(self, data[idx[CHOOSE i \in 1..Len(keys) :
                                      keys[i] = k /\ \A j \in (i + 1)..Len(keys) : keys[j] # k]])]

\* Reader.get_next() on the lines fp not yet read: the next line that is
\* not blank and the lines after it, or stop for StopIteration
RECURSIVE get_next(_)
get_next(fp) ==
    IF fp = <<>> THEN [stop |-> TRUE, fp |-> <<>>]
    ELSE IF Strip(Head(fp)) = "" THEN get_next(Tail(fp))
    ELSE [stop |-> FALSE, line |-> Head(fp), fp |-> Tail(fp)]

\* What one pass of the loop of __next__ comes to: the record returned or
\* the exception raised, with the lines left unread, or no item
Item(item, fp) == [item |-> item, fp |-> fp]
Skipped(fp) == [skipped |-> TRUE, fp |-> fp]

\* The start of an element record
ElementRecord(data) ==
    ("input_type" :> "ELEMENT") @@ ("type" :> ElementType[data[3]]) @@ ("name" :> data[2])

\* The passes of the loop over range(int(tok)) that can be taken: none
\* for a count below 1, and no more than the lines left and one, the pass
\* in which get_next() raises StopIteration
FanPasses(tok, fp) ==
    IF Negative(NumberText(tok)) THEN 0
    ELSE IF Len(StripZerosLeft(DigitsOf(Unsigned(NumberText(tok))))) > 9 THEN Len(fp) + 1
    ELSE Min(handle_int(tok), Len(fp) + 1)

\* The data points of a fan, one line for each of the n points. The dict
\* literal names the key 'a2' twice, so a point holds a1, a2 (from the
\* fourth field), a4 and mf (both from the fifth).
RECURSIVE FanPoints(_, _, _)
FanPoints(self, fp, n) ==
    IF n <= 0 THEN [pts |-> <<>>, error |-> "", fp |-> fp]
    ELSE LET g == get_next(fp)
             data == Split(g.line)
         IN  IF g.stop THEN [pts |-> <<>>, error |-> "BadNetworkInput", fp |-> g.fp]
             ELSE IF Len(data) < 5 THEN [pts |-> <<>>, error |-> "BadNetworkInput", fp |-> g.fp]
             ELSE IF BadFloats(self, data, {1, 2, 4, 5})
             THEN [pts |-> <<>>, error |-> "ValueError", fp |-> g.fp]
             ELSE LET pt == Floats(self, data, <<"a1", "a2", "a2", "a4", "mf">>, <<1, 2, 4, 5, 5>>)
                      rest == FanPoints(self, g.fp, n - 1)
                  IN  [pts |-> <<pt>> \o rest.pts, error |-> rest.error, fp |-> rest.fp]

\* An element of two lines whose second line holds four numbers
TwoLines(self, data, fp, keys1, keys2) ==
    LET g == get_next(fp)
        data2 == Split(g.line)
    IN  IF Len(data) < 7 THEN Item(BadNetworkInput, fp)
        ELSE IF BadFloats(self, data, 4..7) THEN Item(Raise("ValueError"), fp)
        ELSE IF g.stop THEN Item(BadNetworkInput, g.fp)
        ELSE IF Len(data2) < 4 THEN Item(BadNetworkInput, g.fp)
        ELSE IF BadFloats(self, data2, 1..4) THEN Item(Raise("ValueError"), g.fp)
        ELSE Item(ElementRecord(data) @@ Floats(self, SubSeq(data, 1, 7) \o data2, keys1 \o keys2, <<4, 5, 6, 7, 8, 9, 10, 11>>),
                  g.fp)

\* The fan element: a second line of four numbers, the number of data
\* points and one more number, then the lines of the data points
FanRecord(self, data, fp) ==
    LET g == get_next(fp)
        data2 == Split(g.line)
        points == FanPoints(self, g.fp, FanPasses(data2[5], g.fp))
    IN  IF Len(data) < 7 THEN Item(BadNetworkInput, fp)
        ELSE IF BadFloats(self, data, 4..7) THEN Item(Raise("ValueError"), fp)
        ELSE IF g.stop THEN Item(BadNetworkInput, g.fp)
        ELSE IF Len(data2) < 6 THEN Item(BadNetworkInput, g.fp)
        ELSE IF BadFloats(self, data2, 1..4) THEN Item(Raise("ValueError"), g.fp)
        ELSE IF ~IntSyntax(data2[5]) THEN Item(Raise("ValueError"), g.fp)
        ELSE IF BadFloats(self, data2, {6}) THEN Item(Raise("ValueError"), g.fp)
        ELSE IF points.error # "" THEN Item(Raise(points.error), points.fp)
        ELSE Item(ElementRecord(data)
                  @@ Floats(self, SubSeq(data, 1, 7) \o data2,
                            <<"init", "lam", "turb", "expt", "rdens", "fdf", "sop", "ltt", "mfl">>,
                            <<4, 5, 6, 7, 8, 9, 10, 11, 13>>)
                  @@ ("pts" :> points.pts),
                  points.fp)

\* An element of one line: the fields after the type, by key
OneLine(self, data, fp, keys) ==
    IF Len(data) < 3 + Len(keys) THEN Item(BadNetworkInput, fp)
    ELSE IF BadFloats(self, data, 4..(3 + Len(keys))) THEN Item(Raise("ValueError"), fp)
    ELSE Item(ElementRecord(data) @@ Floats(self, data, keys, [i \in 1..Len(keys) |-> 3 + i]),
              fp)

\* One pass of the loop of Reader.__next__ after the title test, on
\* data = next_line.split() (data[k] of the code is data[k+1] here) with
\* the lines fp still unread
ReaderRecord(self, data, fp) ==
    IF data[1] = "node" THEN
        IF Len(data) < 3 THEN Item(Raise("IndexError"), fp)
        ELSE IF data[3] \notin {"v", "c", "a"} THEN Item(BadNetworkInput, fp)
        ELSE IF data[3] = "v" THEN
            IF Len(data) < 5 THEN Item(BadNetworkInput, fp)
            ELSE IF BadFloats(self, data, {4, 5}) THEN Item(Raise("ValueError"), fp)
            ELSE Item(("input_type" :> "NODE") @@ ("name" :> data[2]) @@ ("type" :> data[3])
                      @@ Floats(self, data, <<"ht", "temp">>, <<4, 5>>), fp)
        ELSE
            IF Len(data) < 6 THEN Item(BadNetworkInput, fp)
            ELSE IF BadFloats(self, data, {4, 5, 6}) THEN Item(Raise("ValueError"), fp)
            ELSE Item(("input_type" :> "NODE") @@ ("name" :> data[2]) @@ ("type" :> data[3])
                      @@ Floats(self, data, <<"ht", "temp", "pres">>, <<4, 5, 6>>), fp)
    ELSE IF data[1] = "element" THEN
        IF Len(data) < 3 THEN Item(Raise("IndexError"), fp)
        ELSE IF data[3] = "plr" THEN OneLine(self, data, fp, <<"init", "lam", "turb", "expt">>)
        ELSE IF data[3] = "dwc"
        THEN TwoLines(self, data, fp, <<"len", "dh", "area", "rgh">>,
                      <<"tdlc", "lflc", "ldlc", "init">>)
        ELSE IF data[3] = "dor"
        THEN TwoLines(self, data, fp, <<"init", "lam", "turb", "expt">>,
                      <<"dtmin", "ht", "wd", "cd">>)
        ELSE IF data[3] = "cfr" THEN OneLine(self, data, fp, <<"flow">>)
        ELSE IF data[3] = "fan" THEN FanRecord(self, data, fp)
        ELSE IF data[3] = "cpf" THEN OneLine(self, data, fp, <<"upo", "prmin", "ftyp">>)
        ELSE IF data[3] = "qfr" THEN OneLine(self, data, fp, <<"a", "b">>)
        ELSE IF data[3] = "ckv" THEN OneLine(self, data, fp, <<"dp0", "coeff">>)
        ELSE Item(BadNetworkInput, fp)
    ELSE IF data[1] = "link" THEN
        IF Len(data) < 8 THEN Item(BadNetworkInput, fp)
        ELSE IF data[8] = "null" THEN
            IF BadFloats(self, data, {4, 6}) THEN Item(Raise("ValueError"), fp)
            ELSE Item(("input_type" :> "LINK") @@ ("name" :> data[2]) @@ ("node-1" :> data[3])
                      @@ ("node-2" :> data[5]) @@ ("element" :> data[7])
                      @@ Floats(self, data, <<"ht-1", "ht-2">>, <<4, 6>>), fp)
        ELSE IF Len(data) < 9 THEN Item(BadNetworkInput, fp)
        ELSE IF BadFloats(self, data, {4, 6, 9}) THEN Item(Raise("ValueError"), fp)
        ELSE Item(("input_type" :> "LINK") @@ ("name" :> data[2]) @@ ("node-1" :> data[3])
                  @@ ("node-2" :> data[5]) @@ ("element" :> data[7]) @@ ("wind" :> data[8])
                  @@ Floats(self, data, <<"ht-1", "ht-2", "wpmod">>, <<4, 6, 9>>), fp)
    ELSE Skipped(fp)

\* The record of a title line whose text after the keyword is t
TitleRecord(t) == ("input_type" :> "TITLE") @@ ("title" :> t)

\* Python truth value of Reader.title, which is None or <<the title text>>
Truthy(t) == t # None /\ t # <<"">>

\* The loop of Reader.__next__ from next_line on, with the lines fp still
\* unread: the item returned or the exception raised, the Reader and the
\* lines left afterwards
RECURSIVE ReaderLoop(_, _, _)

\* The end of a pass of the loop that came to r: return or raise what the
\* pass did, or go on with the next line g = get_next(fp) when it did
\* nothing
EndOfPass(self, r, g) ==
    IF "skipped" \notin DOMAIN r THEN [item |-> r.item, self |-> self, fp |-> r.fp]
    ELSE IF g.stop THEN [item |-> Raise("StopIteration"), self |-> self, fp |-> g.fp]
    ELSE ReaderLoop(self, g.line, g.fp)

ReaderLoop(self, next_line, fp) ==
    IF StartsWith(next_line, "*")
    THEN [item |-> Raise("StopIteration"), self |-> self, fp |-> fp]
    ELSE IF StartsWith(LStrip(next_line), "title")
    THEN IF Truthy(self.title) THEN [item |-> BadNetworkInput, self |-> self, fp |-> fp]
         ELSE LET t == LStrip(Replace(LStrip(next_line), "title"))
              IN  [item |-> TitleRecord(t), self |-> [self EXCEPT !.title = <<t>>], fp |-> fp]
    ELSE EndOfPass(self, ReaderRecord(self, Split(next_line), fp), get_next(fp))

\* Reader.__next__() on the lines fp not yet read
Reader_next(self, fp) ==
    IF get_next(fp).stop THEN [item |-> Raise("StopIteration"), self |-> self, fp |-> <<>>]
    ELSE ReaderLoop(self, get_next(fp).line, get_next(fp).fp)

\* Texts of the title lines of the input file
TitleTexts == {"", "t1"}

\* The title line with text t
TitleLine(t) == "title " \o t

\* Runs of lines of the input file that one __next__ reads: node, plr
\* element and link lines, a line the Reader passes over (alone, and before
\* a node line), and a doorway element whose second line holds a word
\* float() rejects
Lines ==
    { <<"/">>,
      <<"/", "node n1 v 0.0 20.0">>,
      <<"element e3 dor 1.0 1.0 1.0 1.0", "1.0 abc 1.0 1.0">>,
      <<"node n1 c 0.0 20.0 0.0">>,
      <<"node n1 v 0.0 20.0">>,
      <<"node n2 c 0.0 20.0 -100.0">>,
      <<"node n2 a 0.0 20.0 0.0">>,
      <<"element e1 plr 1.0 1.0 3.0 0.5">>,
      <<"element e1 plr 2.0 2.0 3.0 0.5">>,
      <<"link l1 n1 0.0 n2 0.0 e1 null">>,
      <<"link l2 n2 0.0 n2 0.0 e1 null">>,
      <<"link l3 n2 1.0 n2 0.0 e1 null">> }

\* The records the Reader can yield
ReaderRecords ==
    {Reader_next(Reader(TRUE), ls).item :
        ls \in {l \in Lines : ~IsException(Reader_next(Reader(TRUE), l).item)}}
    \cup {TitleRecord(t) : t \in TitleTexts}

\* The same records as a caller builds them for Model(): the element type
\* is the key of object_lookup for the keyword, not the enum member
CallerRecord(rec) ==
    IF rec["input_type"] = "ELEMENT"
    THEN ("type" :> CHOOSE key \in DOMAIN ElementType : ElementType[key] = rec["type"]) @@ rec
    ELSE rec

CallerRecords == {CallerRecord(r) : r \in ReaderRecords}

\* ------------------------------------------------------------------------
\* Airflow elements: constructors (afedat.py)
\* ------------------------------------------------------------------------
Drop(d, keys) == [k \in DOMAIN d \ keys |-> d[k]]

\* dict.get(key, default)
Get(d, key, default) == IF key \in DOMAIN d THEN d[key] ELSE default

\* AirflowElement.get_arg: dict.get never raises KeyError, so the value
\* under name0 (None when absent) is what it returns
get_arg(dictionary, name0, name1) == Get(dictionary, name0, None)

\* Afe_Plr.__init__(**kwargs)
Afe_Plr(kwargs) ==
    LET init0 == Get(kwargs, "init", None)
        init1 == IF init0 = None THEN Get(kwargs, "initializer", None) ELSE init0
        linear == get_arg(kwargs, "lam", "linear")
        coefficient == get_arg(kwargs, "turb", "coefficient")
        exponent == Get(kwargs, "expt", Half)
    IN  ("class" :> "Afe_Plr")
        @@ ("initializer" :> IF init1 = None THEN linear ELSE init1)
        @@ ("linear" :> linear) @@ ("coefficient" :> coefficient)
        @@ ("exponent" :> exponent)

\* Afe_Dor.__init__(**kwargs): super().__init__(kwargs) hands the dict to
\* Afe_Plr.__init__ as a positional argument, which it does not take
Afe_Dor(kwargs) == Raise("TypeError")

\* Keyword parameters (with their defaults) of the constructors that
\* declare them one by one
Params(cls) ==
    CASE cls = "Afe_Dwc" ->
           [length |-> Zero, hdia |-> Zero, area |-> Zero, rough |-> Zero, tdlc |-> Zero,
            lflc |-> Zero, ldlc |-> Zero, linit |-> Zero, ed |-> Zero, ld |-> Zero, f |-> Zero]
      [] cls = "Afe_Qfr" -> [a |-> Zero, b |-> Zero]
      [] cls = "Afe_Cfr" -> [flow |-> Zero]
      [] cls = "Afe_Fan" ->
           [init |-> Zero, lam |-> Zero, turb |-> Zero, expt |-> Half, rdens |-> Zero,
            fdf |-> Zero, sop |-> Zero, off |-> Zero, mf1 |-> Zero, pts |-> None]
      [] cls = "Afe_Cpf" -> [upo |-> Zero, prmin |-> Zero, ftyp |-> Zero]
      [] cls = "Afe_Ckv" -> [dp0 |-> Zero, coef |-> Zero]
      [] cls = "Afe_Prv" -> [fpos |-> Zero, cpos |-> Zero, fneg |-> Zero, cneg |-> Zero]

\* The parameters a constructor stores as attributes
Stored(cls) ==
    IF cls = "Afe_Fan" THEN DOMAIN Params(cls) \ {"mf1", "pts"} ELSE DOMAIN Params(cls)

\* Afe_Container with Afe_Fan also initialised as the Afe_Plr it derives from
Afe_Container_FanAsPlr(cls, kwargs) ==
    IF ~(DOMAIN kwargs \subseteq DOMAIN Params(cls)) THEN Raise("TypeError")
    ELSE IF cls = "Afe_Fan"
    THEN ("class" :> cls) @@ [k \in Stored(cls) |-> Get(kwargs, k, Params(cls)[k])]
         @@ ("initializer" :> Get(kwargs, "init", Zero)) @@ ("linear" :> Get(kwargs, "lam", Zero))
         @@ ("coefficient" :> Get(kwargs, "turb", Zero)) @@ ("exponent" :> Get(kwargs, "expt", Half))
    ELSE ("class" :> cls) @@ [k \in Stored(cls) |-> Get(kwargs, k, Params(cls)[k])]

\* The classes that only store their coefficients
Afe_Container(cls, kwargs) ==
    IF ~(DOMAIN kwargs \subseteq DOMAIN Params(cls)) THEN Raise("TypeError")
    ELSE ("class" :> cls) @@ [k \in Stored(cls) |-> Get(kwargs, k, Params(cls)[k])]

\* object_lookup: type key -> class
object_lookup ==
    [plr |-> "Afe_Plr", dwc |-> "Afe_Dwc", qfr |-> "Afe_Qfr", dor |-> "Afe_Dor",
     cfr |-> "Afe_Cfr", fan |-> "Afe_Fan", cpf |-> "Afe_Cpf", ckv |-> "Afe_Ckv",
     prv |-> "Afe_Prv"]

\* cls(**kwargs): the new object, or the exception raised
New(cls, kwargs) ==
    CASE cls = "Afe_Plr" -> Afe_Plr(kwargs)
      [] cls = "Afe_Dor" -> Afe_Dor(kwargs)
      [] OTHER -> Afe_Container(cls, kwargs)


\* ------------------------------------------------------------------------
\* Airflow elements: laws (afedat.py)
\* ------------------------------------------------------------------------
\* The tuple (nf, f1, f2, df1, df2) that calculate returns
Flows(nf, f1, f2, df1, df2) == [nf |-> nf, f1 |-> f1, f2 |-> f2, df1 |-> df1, df2 |-> df2]

\* Reading the attributes in the order the arithmetic uses them: the first
\* one the object lacks raises AttributeError, the first one that is None
\* raises TypeError in the product it enters; None when all are numbers
RECURSIVE ReadError(_, _)
ReadError(self, attrs) ==
    IF attrs = <<>> THEN None
    ELSE IF attrs[1] \notin DOMAIN self THEN Raise("AttributeError")
    ELSE IF self[attrs[1]] = None THEN Raise("TypeError")
    ELSE ReadError(self, Tail(attrs))

\* Afe_Plr.linearize(link): the slope returned, as [slope |-> value]
Plr_linearize(self, node0, node1) ==
    IF ReadError(self, <<"initializer">>) # None THEN ReadError(self, <<"initializer">>)
    ELSE [slope |-> RMul(RMul(Half, self["initializer"]), RAdd(node0.dvisc, node1.dvisc))]

\* The turbulent flow c * p, p being what math.pow gave: a float, a term
\* or PowOverflow
PlrTurbulent(c, p) ==
    IF p = PowOverflow THEN p ELSE IF Len(p) = 3 THEN Term("*", c, p) ELSE RMul(c, p)

\* `a if lo <= hi else b`, for a comparison with a term
Choice(lo, hi, a, b) == Term("if", Term("<=", lo, hi), Term("else", a, b))

\* The flow and its slope by the if/else on the laminar flow fl and the
\* turbulent flow ft: the test is fl <= ft forward and fl >= ft backward.
\* With a power that is a term the flows are terms, and with a power of
\* either outcome the call is one of either outcome.
PlrFlows(cdm, fl, ft, forward, exponent, pdrop) ==
    IF ft = PowOverflow THEN Raise("OverflowError")
    ELSE IF Len(ft) = 3 /\ ft[3][1] = "pow or OverflowError"
    THEN Term("calculate or OverflowError", ft, pdrop)
    ELSE IF Len(ft) = 3
    THEN Flows(1, IF forward THEN Choice(fl, ft, fl, ft) ELSE Choice(ft, fl, fl, ft), Zero,
               IF forward
               THEN Choice(fl, ft, cdm, Term("/", Term("*", ft, exponent), pdrop))
               ELSE Choice(ft, fl, cdm, Term("/", Term("*", ft, exponent), pdrop)), Zero)
    ELSE IF RLe(IF forward THEN fl ELSE ft, IF forward THEN ft ELSE fl)
    THEN Flows(1, fl, Zero, cdm, Zero)
    ELSE Flows(1, ft, Zero, RDiv(RMul(ft, exponent), pdrop), Zero)

\* One branch of Afe_Plr.calculate from cdm = self.linear * dvisc and
\* c = (+/-) self.coefficient * sqrt_density of the upstream node:
\* fl = cdm * pdrop and ft = c * math.pow((+/-) pdrop, self.exponent)
PlrBranch(cdm, c, size, forward, exponent, pdrop) ==
    PlrFlows(cdm, RMul(cdm, pdrop), PlrTurbulent(c, Pow(size, exponent)),
             forward, exponent, pdrop)

\* x > 0.0 and x < 0.0
IsPositive(x) == FloatSign(x) > 0
IsNegative(x) == FloatSign(x) < 0

\* Plr_calculate with the zero-drop slope taken from node0 alone
Plr_calculate_Node0(self, node0, node1, pdrop) ==
    IF IsPositive(pdrop) THEN
        IF ReadError(self, <<"linear", "coefficient", "exponent">>) # None
        THEN ReadError(self, <<"linear", "coefficient", "exponent">>)
        ELSE PlrBranch(RMul(self["linear"], node0.dvisc),
                       RMul(self["coefficient"], node0.sqrt_density),
                       pdrop, TRUE, self["exponent"], pdrop)
    ELSE IF IsNegative(pdrop) THEN
        IF ReadError(self, <<"linear", "coefficient", "exponent">>) # None
        THEN ReadError(self, <<"linear", "coefficient", "exponent">>)
        ELSE PlrBranch(RMul(self["linear"], node1.dvisc),
                       RMul(RNeg(self["coefficient"]), node1.sqrt_density),
                       RNeg(pdrop), FALSE, self["exponent"], pdrop)
    ELSE
        IF ReadError(self, <<"linear">>) # None THEN ReadError(self, <<"linear">>)
        ELSE Flows(1, Zero, Zero, RMul(self["linear"], node0.dvisc), Zero)

\* Plr_calculate with the comparison of the negative branch not mirrored
Plr_calculate_Unmirrored(self, node0, node1, pdrop) ==
    IF IsPositive(pdrop) THEN
        IF ReadError(self, <<"linear", "coefficient", "exponent">>) # None
        THEN ReadError(self, <<"linear", "coefficient", "exponent">>)
        ELSE PlrBranch(RMul(self["linear"], node0.dvisc),
                       RMul(self["coefficient"], node0.sqrt_density),
                       pdrop, TRUE, self["exponent"], pdrop)
    ELSE IF IsNegative(pdrop) THEN
        IF ReadError(self, <<"linear", "coefficient", "exponent">>) # None
        THEN ReadError(self, <<"linear", "coefficient", "exponent">>)
        ELSE PlrBranch(RMul(self["linear"], node1.dvisc),
                       RMul(RNeg(self["coefficient"]), node1.sqrt_density),
                       RNeg(pdrop), TRUE, self["exponent"], pdrop)
    ELSE
        IF ReadError(self, <<"linear">>) # None THEN ReadError(self, <<"linear">>)
        ELSE Flows(1, Zero, Zero,
                   RMul(RMul(Half, self["linear"]), RAdd(node0.dvisc, node1.dvisc)), Zero)

\* Afe_Plr.calculate(link, pdrop), node0 and node1 being the link's nodes
Plr_calculate(self, node0, node1, pdrop) ==
    IF IsPositive(pdrop) THEN
        IF ReadError(self, <<"linear", "coefficient", "exponent">>) # None
        THEN ReadError(self, <<"linear", "coefficient", "exponent">>)
        ELSE PlrBranch(RMul(self["linear"], node0.dvisc),
                       RMul(self["coefficient"], node0.sqrt_density),
                       pdrop, TRUE, self["exponent"], pdrop)
    ELSE IF IsNegative(pdrop) THEN
        IF ReadError(self, <<"linear", "coefficient", "exponent">>) # None
        THEN ReadError(self, <<"linear", "coefficient", "exponent">>)
        ELSE PlrBranch(RMul(self["linear"], node1.dvisc),
                       RMul(RNeg(self["coefficient"]), node1.sqrt_density),
                       RNeg(pdrop), FALSE, self["exponent"], pdrop)
    ELSE
        IF ReadError(self, <<"linear">>) # None THEN ReadError(self, <<"linear">>)
        ELSE Flows(1, Zero, Zero,
                   RMul(RMul(Half, self["linear"]), RAdd(node0.dvisc, node1.dvisc)), Zero)

\* 9.8, 1.414214 and 0.666667 of Afe_Dor.calculate
Gravity == <<49, 5>>
Sqrt2 == <<707107, 500000>>
TwoThirds == <<666667, 1000000>>

\* The one-way flow of Afe_Dor.calculate from sqrt_density of the upstream
\* node (negated for the flow from node1), flow = abs(fh - f0) and
\* slope = abs(dfh - df0)
DorOneWay(backward, sqrt_density, flow, slope) ==
    Flows(1, IF backward THEN RNeg(RMul(sqrt_density, flow)) ELSE RMul(sqrt_density, flow),
          Zero, RMul(sqrt_density, slope), Zero)

\* The branches of Afe_Dor.calculate on y and drho, from f0, df0, fh and
\* dfh; self.ht in the test of the upper one-way flow is an attribute no
\* Afe_Dor object has (the height is self.height)
DorFlows(node0, node1, drho, y, df0, f0, dfh, fh) ==
    IF IsNegative(y)
    THEN DorOneWay(IsPositive(drho),
                   IF IsPositive(drho) THEN node1.sqrt_density ELSE node0.sqrt_density,
                   RAbs(RSub(fh, f0)), RAbs(RSub(dfh, df0)))
    ELSE Raise("AttributeError")

\* fh = 0.666667 * dfh * abs(gdrho*(self.height-y)), then the branches
DorUpper(node0, node1, drho, y, df0, f0, dfh, above) ==
    DorFlows(node0, node1, drho, y, df0, f0, dfh, RMul(RMul(TwoThirds, dfh), RAbs(above)))

\* The two-way arm of Afe_Dor.calculate from y = pdrop / gdrho,
\* c = 1.414214 * self.width * self.discharge_coefficient and
\* over = self.height - y
DorTwoWay(node0, node1, pdrop, drho, gdrho, y, c, over) ==
    DorUpper(node0, node1, drho, y,
             RDiv(RMul(c, RSqrt(RAbs(pdrop))), RAbs(gdrho)),
             RMul(RMul(RMul(TwoThirds, c), RSqrt(RAbs(RMul(gdrho, y)))), RAbs(y)),
             RMul(c, RSqrt(RAbs(RDiv(over, gdrho)))),
             RMul(gdrho, over))

\* Afe_Dor.calculate from drho, dt and gdrho = 9.8 * drho
DorArms(self, node0, node1, pdrop, drho, dt, gdrho, y) ==
    IF RLt(RAbs(dt), self["min_temperature_difference"])
    THEN Plr_calculate(self, node0, node1,
                       RSub(pdrop, RMul(RMul(Half, self["height"]), gdrho)))
    ELSE IF gdrho = Zero THEN Raise("ZeroDivisionError")
    ELSE DorTwoWay(node0, node1, pdrop, drho, gdrho, y,
                   RMul(RMul(Sqrt2, self["width"]), self["discharge_coefficient"]),
                   RSub(self["height"], y))

DorGravity(self, node0, node1, pdrop, drho, dt, gdrho) ==
    DorArms(self, node0, node1, pdrop, drho, dt, gdrho,
            IF gdrho = Zero THEN NaN ELSE RDiv(pdrop, gdrho))

\* Afe_Dor.calculate(link, pdrop)
Dor_calculate(self, node0, node1, pdrop) ==
    DorGravity(self, node0, node1, pdrop,
               RSub(node0.density, node1.density),
               RSub(node0.temperature, node1.temperature),
               RMul(Gravity, RSub(node0.density, node1.density)))

\* The classes that have (inherit) calculate and linearize
PlrClasses == {"Afe_Plr", "Afe_Dor", "Afe_Fan"}

\* element.calculate(link, pdrop) by the class of the element
Calculate(self, node0, node1, pdrop) ==
    IF self["class"] \notin PlrClasses THEN Raise("AttributeError")
    ELSE IF self["class"] = "Afe_Dor" THEN Dor_calculate(self, node0, node1, pdrop)
    ELSE Plr_calculate(self, node0, node1, pdrop)

\* element.linearize(link) by the class of the element
Linearize(self, node0, node1) ==
    IF self["class"] \notin PlrClasses THEN Raise("AttributeError")
    ELSE Plr_linearize(self, node0, node1)

\* ------------------------------------------------------------------------
\* Model construction (model.py)
\* ------------------------------------------------------------------------
\* Node.__init__(name, variable, ht, temp, pres, index)
Node(variable, kw) ==
    IF ~(DOMAIN kw \subseteq {"name", "ht", "temp", "pres", "index"}) THEN Raise("TypeError")
    ELSE [name |-> Get(kw, "name", None), variable |-> variable,
          height |-> Get(kw, "ht", Zero), temperature |-> Get(kw, "temp", Rat(29315, 100)),
          pressure |-> Get(kw, "pres", Zero), index |-> Get(kw, "index", None),
          density |-> Zero, viscosity |-> Zero, sqrt_density |-> Zero, dvisc |-> Zero]

\* Link.__init__(name, node0, ht0, node1, ht1, element, wind, wpmod, mult)
Link(node0, ht0, node1, ht1, elt, kw) ==
    IF ~(DOMAIN kw \subseteq {"name", "wind", "wpmod", "mult"}) THEN Raise("TypeError")
    ELSE [name |-> Get(kw, "name", None), node0 |-> node0, node1 |-> node1,
          ht0 |-> ht0, ht1 |-> ht1, element |-> elt, wind |-> Get(kw, "wind", None),
          wpmod |-> Get(kw, "wpmod", Zero), mult |-> Get(kw, "mult", R(1))]

\* self.nodes is a dict: the sequence of its values in insertion order.
\* nodes[name] = node keeps the position of a key that is already there.
Names(nodes) == {nodes[i].name : i \in 1..Len(nodes)}
NodeAt(nodes, name) == nodes[CHOOSE i \in 1..Len(nodes) : nodes[i].name = name]
PutNode(nodes, node) ==
    IF node.name \in Names(nodes)
    THEN [i \in 1..Len(nodes) |-> IF nodes[i].name = node.name THEN node ELSE nodes[i]]
    ELSE Append(nodes, node)

\* variable = el.pop('type', 'c') == 'c'
VariableFlag(type) == type = "c"

\* The state of Model.__init__ while it runs: the attributes set so far,
\* the deferred link records (positions in the input), the input list as
\* mutated so far, and the exception raised, if any
Building(its) ==
    [title |-> "", nodes |-> <<>>, elements |-> <<>>, links |-> <<>>,
     pending |-> <<>>, items |-> its, error |-> ""]

\* b.items with record i replaced by r
PutItem(b, i, r) == [b.items EXCEPT ![i] = r]

\* The NODE branch of the loop over network_input; node_object(...) is
\* evaluated before the key el['name'] of the assignment target
ConsumeNode(b, i) ==
    LET el == b.items[i]
        variable == VariableFlag(Get(el, "type", "c"))
        kw == Drop(el, {"type", "input_type"})
        node == Node(variable, kw)
    IN  IF IsException(node)
        THEN [b EXCEPT !.items = PutItem(b, i, kw), !.error = node.exception]
        ELSE IF "name" \notin DOMAIN kw
        THEN [b EXCEPT !.items = PutItem(b, i, kw), !.error = "KeyError"]
        ELSE [b EXCEPT !.items = PutItem(b, i, kw), !.nodes = PutNode(b.nodes, node)]

\* The LINK branch with the link looked up at once instead of deferred
ConsumeLink_Eager(b, i) ==
    LET el == b.items[i]
    IN  IF {el["node-1"], el["node-2"]} \subseteq Names(b.nodes)
           /\ el["element"] \in DOMAIN b.elements
        THEN [b EXCEPT !.items = PutItem(b, i, Drop(el, {"input_type"})),
                       !.pending = Append(b.pending, i)]
        ELSE [b EXCEPT !.items = PutItem(b, i, Drop(el, {"input_type"})),
                       !.error = "KeyError"]

\* The LINK branch of the loop over network_input: links.append(el)
ConsumeLink(b, i) ==
    [b EXCEPT !.items = PutItem(b, i, Drop(b.items[i], {"input_type"})),
              !.pending = Append(b.pending, i)]

\* The ELEMENT branch of the loop over network_input
ConsumeElement(b, i) ==
    LET el == b.items[i]
    IN  IF "type" \notin DOMAIN el
        THEN [b EXCEPT !.items = PutItem(b, i, Drop(el, {"input_type"})),
                       !.error = "KeyError"]
        ELSE IF "name" \notin DOMAIN el
        THEN [b EXCEPT !.items = PutItem(b, i, Drop(el, {"input_type", "type"})),
                       !.error = "KeyError"]
        ELSE
            LET kw == Drop(el, {"input_type", "type", "name"})
                obj == IF el["type"] \in DOMAIN object_lookup
                       THEN New(object_lookup[el["type"]], kw) ELSE Raise("KeyError")
            IN  IF IsException(obj)
                THEN [b EXCEPT !.items = PutItem(b, i, kw), !.error = obj.exception]
                ELSE [b EXCEPT !.items = PutItem(b, i, kw),
                               !.elements = (el["name"] :> obj) @@ b.elements]

\* One iteration of `for el in network_input`
Consume(b, i) ==
    LET el == b.items[i]
    IN  IF "input_type" \notin DOMAIN el THEN [b EXCEPT !.error = "KeyError"]
        ELSE IF el["input_type"] = "TITLE"
        THEN IF "title" \notin DOMAIN el THEN [b EXCEPT !.error = "KeyError"]
             ELSE [b EXCEPT !.title = el["title"]]
        ELSE IF el["input_type"] = "NODE" THEN ConsumeNode(b, i)
        ELSE IF el["input_type"] = "LINK" THEN ConsumeLink(b, i)
        ELSE IF el["input_type"] = "ELEMENT" THEN ConsumeElement(b, i)
        ELSE b

RECURSIVE ConsumeFrom(_, _)
ConsumeFrom(b, i) ==
    IF i > Len(b.items) \/ b.error # "" THEN b ELSE ConsumeFrom(Consume(b, i), i + 1)

\* Resolve that leaves out a link whose node or element is not declared
Resolve_Skip(b, j) ==
    LET i == b.pending[j]
        l == b.items[i]
        kw == Drop(l, {"node-1", "ht-1", "node-2", "ht-2", "element"})
    IN  IF {l["node-1"], l["node-2"]} \subseteq Names(b.nodes)
           /\ l["element"] \in DOMAIN b.elements
        THEN [b EXCEPT !.items = PutItem(b, i, kw),
                       !.links = Append(b.links, Link(l["node-1"], l["ht-1"], l["node-2"],
                                                      l["ht-2"], l["element"], kw))]
        ELSE [b EXCEPT !.items = PutItem(b, i, kw)]

\* One iteration of `for link in links`: the pops of a link record up to
\* the first failing lookup
Resolve(b, j) ==
    LET i == b.pending[j]
        l == b.items[i]
        Put(keys) == [b.items EXCEPT ![i] = Drop(l, keys)]
        Fail(keys) == [b EXCEPT !.items = Put(keys), !.error = "KeyError"]
    IN  IF "node-1" \notin DOMAIN l THEN Fail({})
        ELSE IF l["node-1"] \notin Names(b.nodes) THEN Fail({"node-1"})
        ELSE IF "ht-1" \notin DOMAIN l THEN Fail({"node-1"})
        ELSE IF "node-2" \notin DOMAIN l THEN Fail({"node-1", "ht-1"})
        ELSE IF l["node-2"] \notin Names(b.nodes) THEN Fail({"node-1", "ht-1", "node-2"})
        ELSE IF "ht-2" \notin DOMAIN l THEN Fail({"node-1", "ht-1", "node-2"})
        ELSE IF "element" \notin DOMAIN l THEN Fail({"node-1", "ht-1", "node-2", "ht-2"})
        ELSE IF l["element"] \notin DOMAIN b.elements
             THEN Fail({"node-1", "ht-1", "node-2", "ht-2", "element"})
        ELSE
            LET kw == Drop(l, {"node-1", "ht-1", "node-2", "ht-2", "element"})
                obj == Link(l["node-1"], l["ht-1"], l["node-2"], l["ht-2"], l["element"], kw)
            IN  IF IsException(obj) THEN [b EXCEPT !.items = Put(DOMAIN l \ DOMAIN kw), !.error = obj.exception]
                ELSE [b EXCEPT !.items = Put(DOMAIN l \ DOMAIN kw), !.links = Append(b.links, obj)]

RECURSIVE ResolveFrom(_, _)
ResolveFrom(b, j) ==
    IF j > Len(b.pending) \/ b.error # "" THEN b ELSE ResolveFrom(Resolve(b, j), j + 1)

\* AssignIndices with count advanced for every node, variable or not
RECURSIVE AssignIndices_CountAll(_, _)
AssignIndices_CountAll(st, i) ==
    IF i > Len(st.nodes) THEN st
    ELSE IF st.nodes[i].variable
         THEN AssignIndices_CountAll(
                  [nodes |-> [st.nodes EXCEPT ![i].index = <<st.count>>],
                   variable_nodes |-> Append(st.variable_nodes, st.nodes[i].name),
                   count |-> st.count + 1], i + 1)
         ELSE AssignIndices_CountAll([st EXCEPT !.count = st.count + 1], i + 1)

\* `for node in self.nodes.values()` from position i on; st holds the
\* nodes, self.variable_nodes (references, i.e. node names) and count
RECURSIVE AssignIndices(_, _)
AssignIndices(st, i) ==
    IF i > Len(st.nodes) THEN st
    ELSE IF st.nodes[i].variable
         THEN AssignIndices([nodes |-> [st.nodes EXCEPT ![i].index = <<st.count>>],
                             variable_nodes |-> Append(st.variable_nodes, st.nodes[i].name),
                             count |-> st.count + 1], i + 1)
         ELSE AssignIndices(st, i + 1)

NoModel == [status |-> "none"]

\* Model(network_input): the new Model, or the exception that ends the call,
\* together with the input list as the call leaves it
ModelInit(its) ==
    LET b1 == ConsumeFrom(Building(its), 1)
        b2 == ResolveFrom(b1, 1)
        st == AssignIndices([nodes |-> b2.nodes, variable_nodes |-> <<>>, count |-> 0], 1)
    IN  IF b2.error # "" THEN [model |-> [status |-> b2.error], items |-> b2.items]
        ELSE [model |-> [status |-> "ok", title |-> b2.title, nodes |-> st.nodes,
                         elements |-> b2.elements, links |-> b2.links,
                         variable_nodes |-> st.variable_nodes, size |-> st.count],
              items |-> b2.items]

\* ------------------------------------------------------------------------
\* The program: read or build the records, then construct the Model
\* ------------------------------------------------------------------------
NoElement == [class |-> "none"]
NoLink == [node0 |-> "none"]
NoCall == [op |-> "none"]

Init ==
    /\ source \in {"reader", "caller"}
    /\ reader_title = None
    /\ items = <<>>
    /\ network_input = <<>>
    /\ model = NoModel
    /\ pc = "input"
    /\ element = NoElement
    /\ link = NoLink
    /\ call = NoCall

\* Reader.__next__ on a title line, and items.append(item)
ReadTitle(t) ==
    /\ pc = "input" /\ source = "reader" /\ Len(items) < MaxRecords
    /\ \E out \in {Reader_next([title |-> reader_title, floats |-> TRUE], <<TitleLine(t)>>)} :
           IF IsException(out.item)
           THEN pc' = out.item.exception /\ UNCHANGED <<reader_title, items>>
           ELSE /\ reader_title' = out.self.title
                /\ items' = Append(items, out.item)
                /\ pc' = pc
    /\ UNCHANGED <<source, network_input, model>>
    /\ UNCHANGED afevars

\* Reader.__next__ on the next lines of the file, none of them a title
\* line, and items.append(item) when it yields a record. StopIteration
\* ends `for item in reader` without an error: the caller goes on to
\* Model(items) with the items it has.
ReadLine(lines) ==
    /\ pc = "input" /\ source = "reader" /\ Len(items) < MaxRecords
    /\ \E out \in {Reader_next([title |-> reader_title, floats |-> TRUE], lines)} :
           IF ~IsException(out.item) THEN items' = Append(items, out.item) /\ pc' = pc
           ELSE IF out.item.exception = "StopIteration" THEN UNCHANGED <<items, pc>>
           ELSE pc' = out.item.exception /\ UNCHANGED items
    /\ UNCHANGED <<source, reader_title, network_input, model>>
    /\ UNCHANGED afevars

\* A caller that builds the record list itself
AppendItem(rec) ==
    /\ pc = "input" /\ source = "caller" /\ Len(items) < MaxRecords
    /\ items' = Append(items, rec)
    /\ UNCHANGED <<source, reader_title, network_input, model, pc>>
    /\ UNCHANGED afevars

\* model = Model(items)
Construct ==
    /\ pc = "input"
    /\ network_input' = items
    /\ model' = ModelInit(items).model
    /\ items' = ModelInit(items).items
    /\ pc' = "built"
    /\ UNCHANGED <<source, reader_title>>
    /\ UNCHANGED afevars

Swap(s, i) == [k \in 1..Len(s) |-> IF k = i THEN s[i + 1] ELSE IF k = i + 1 THEN s[i] ELSE s[k]]

\* Model(...) on the same records with two neighbours exchanged
ConstructReordered(i) ==
    /\ pc = "built"
    /\ i \in 1..(Len(network_input) - 1)
    /\ network_input[i] # network_input[i + 1]
    /\ network_input' = Swap(network_input, i)
    /\ model' = ModelInit(Swap(network_input, i)).model
    /\ items' = ModelInit(Swap(network_input, i)).items
    /\ UNCHANGED <<source, reader_title, pc>>
    /\ UNCHANGED afevars

Next ==
    \/ \E t \in TitleTexts : ReadTitle(t)
    \/ \E lines \in Lines : ReadLine(lines)
    \/ \E rec \in CallerRecords : AppendItem(rec)
    \/ Construct
    \/ \E i \in 1..MaxRecords : ConstructReordered(i)

Spec == Init /\ [][Next]_vars

\* ------------------------------------------------------------------------
\* The element laws on their own: build an element, evaluate it on a link
\* ------------------------------------------------------------------------
EmptyDict == [k \in {} |-> None]

\* No keyword, or one of the keys with one of the values
Opt(keys, vals) == {EmptyDict} \cup {k :> v : k \in keys, v \in vals}

Coefs == {R(i) : i \in 0..MaxCoef}

\* Keyword arguments for Afe_Plr: each coefficient under either of its
\* names, or left out
PlrKwargs ==
    {a @@ b @@ c @@ d : a \in Opt({"lam", "linear"}, Coefs),
                        b \in Opt({"turb", "coefficient"}, Coefs),
                        c \in Opt({"expt"}, {Half, R(1)}),
                        d \in Opt({"init"}, {R(1)})}

\* The fields the Reader declares for a doorway element
DorFields == {"init", "lam", "turb", "expt", "dtmin", "ht", "wd", "cd"}

DorKwargs ==
    {[init |-> R(1), lam |-> l, turb |-> t, expt |-> Half,
      dtmin |-> R(1), ht |-> R(2), wd |-> R(1), cd |-> R(1)] : l \in Coefs, t \in Coefs}

ContainerClasses == {"Afe_Dwc", "Afe_Qfr", "Afe_Cfr", "Afe_Fan", "Afe_Cpf", "Afe_Ckv", "Afe_Prv"}

\* Keyword arguments for the other classes: none, or a first parameter
ContainerKwargs(cls) ==
    CASE cls = "Afe_Fan" -> {EmptyDict} \cup {[lam |-> l, turb |-> t] : l \in Coefs, t \in Coefs}
      [] cls = "Afe_Dwc" -> {EmptyDict, [length |-> R(1)], [len |-> R(1)]}
      [] cls = "Afe_Qfr" -> {EmptyDict, [a |-> R(1)]}
      [] cls = "Afe_Cfr" -> {EmptyDict, [flow |-> R(1)]}
      [] cls = "Afe_Cpf" -> {EmptyDict, [upo |-> R(1)]}
      [] cls = "Afe_Ckv" -> {EmptyDict, [dp0 |-> R(1)], [coeff |-> R(1)]}
      [] cls = "Afe_Prv" -> {EmptyDict, [fpos |-> R(1)]}

\* Trial pressure drops
PDrops == {R(-4), R(-1), Zero, R(1), R(4)}

\* Endpoint nodes: as constructed (placeholder properties 0.0), or with
\* properties assigned
NodeStates ==
    {[Node(TRUE, [name |-> "n"]) EXCEPT !.temperature = R(t), !.density = R(p[1]),
                                        !.sqrt_density = R(p[2]), !.dvisc = R(p[3])] :
        t \in {20}, p \in {<<0, 0, 0>>, <<1, 1, 1>>, <<1, 1, 2>>, <<4, 2, 1>>}}
    \cup {[Node(TRUE, [name |-> "n"]) EXCEPT !.temperature = R(25), !.density = R(1),
                                             !.sqrt_density = R(1), !.dvisc = R(1)]}

InitAfe ==
    /\ source = "caller"
    /\ reader_title = None
    /\ items = <<>>
    /\ network_input = <<>>
    /\ model = NoModel
    /\ pc = "afe"
    /\ element = NoElement
    /\ link \in [node0 : NodeStates, node1 : NodeStates]
    /\ call = NoCall

\* element = cls(**kwargs), for the one element of a run; a constructor
\* that raises leaves none
NewElement(cls, kwargs) ==
    /\ pc = "afe" /\ element = NoElement
    /\ call' = [op |-> "new", cls |-> cls, kwargs |-> kwargs, result |-> New(cls, kwargs)]
    /\ element' = IF IsException(New(cls, kwargs)) THEN element ELSE New(cls, kwargs)
    /\ UNCHANGED link
    /\ UNCHANGED netvars

\* element.calculate(link, pdrop)
CalculateCall(pdrop) ==
    /\ pc = "afe" /\ element # NoElement
    /\ call' = [op |-> "calculate", pdrop |-> pdrop,
                result |-> Calculate(element, link.node0, link.node1, pdrop)]
    /\ UNCHANGED <<element, link>>
    /\ UNCHANGED netvars

\* element.linearize(link)
LinearizeCall ==
    /\ pc = "afe" /\ element # NoElement
    /\ call' = [op |-> "linearize", result |-> Linearize(element, link.node0, link.node1)]
    /\ UNCHANGED <<element, link>>
    /\ UNCHANGED netvars

NextAfe ==
    \/ \E kwargs \in PlrKwargs : NewElement("Afe_Plr", kwargs)
    \/ \E kwargs \in DorKwargs : NewElement("Afe_Dor", kwargs)
    \/ \E cls \in ContainerClasses : \E kwargs \in ContainerKwargs(cls) : NewElement(cls, kwargs)
    \/ \E pdrop \in PDrops : CalculateCall(pdrop)
    \/ LinearizeCall

SpecAfe == InitAfe /\ [][NextAfe]_vars

\* ------------------------------------------------------------------------
\* Solver steps on a constructed Model: pressure updates, set_properties,
\* link evaluations, summary, and a second Model(items)
\* ------------------------------------------------------------------------

\* The float expressions of set_properties leave the rationals (math.sqrt)
\* and the integers TLC can hold: their values are kept as the
\* expression that computes them, with the literals as written in the code.
Literal(text) == <<text>>

\* 0.0034838*(101325.0+node.pressure)/node.temperature
Density(temperature, pressure) ==
    Term("/", Term("*", Literal("0.0034838"), Term("+", Literal("101325.0"), pressure)),
         temperature)

\* math.sqrt(node.density)
SqrtDensity(density) == Term("sqrt", density, None)

\* 1.71432e-5 + 4.828E-8 * (node.temperature - 273.15)
Viscosity(temperature) ==
    Term("+", Literal("1.71432e-5"),
         Term("*", Literal("4.828E-8"), Term("-", temperature, Literal("273.15"))))

\* node.density / node.viscosity
Dvisc(density, viscosity) == Term("/", density, viscosity)

\* The decimal x = 0.digits * 10^point is above the whole number of the
\* digits w in magnitude
AboveWhole(x, w) ==
    \/ x[4] > Len(w)
    \/ /\ x[4] = Len(w)
       /\ BigLess(Big(w) \o Zeros(Max(Len(x[3]) - Len(w), 0)),
                  Big(x[3]) \o Zeros(Max(Len(w) - Len(x[3]), 0)))

\* The sign of 101325.0+pressure, 0 for 0.0 and for nan: the sum is 0.0
\* at a pressure of -101325.0 only, and the rounding of the sum keeps the
\* sign at every other pressure
AbsoluteSign(pressure) ==
    IF Len(pressure) = 2
    THEN (IF pressure[1] >= 0 \/ (-pressure[1]) \div pressure[2] < 101325 THEN 1
          ELSE IF pressure = R(-101325) THEN 0
          ELSE -1)
    ELSE IF Len(pressure) = 4
    THEN (IF pressure[2] /\ AboveWhole(pressure, "101325") THEN -1 ELSE 1)
    ELSE FloatSign(pressure)

\* The temperatures at which 1.71432e-5 + 4.828E-8 * (node.temperature -
\* 273.15) is exactly 0.0 in the arithmetic of doubles: the three doubles
\* from -0x1.47b6ff1bf44abp+6 to -0x1.47b6ff1bf44adp+6, whose difference
\* with 273.15 rounds to -355.07870753935373. At every other temperature
\* the viscosity is not 0.0.
ZeroViscosity ==
    { Decimal(TRUE, "8192870753935374", 2),
      Decimal(TRUE, "8192870753935375", 2),
      Decimal(TRUE, "8192870753935377", 2) }

\* The body of the loop of set_properties on one node: the node after
\* it and the exception raised, if any.
\*  - The division by a temperature of 0.0 raises ZeroDivisionError before
\*    anything is assigned.
\*  - math.sqrt of a density below zero raises ValueError after density is
\*    assigned: the density is below zero when 101325.0+pressure and a
\*    finite temperature differ in sign (a quotient of these magnitudes does
\*    not round to -0.0); at a temperature of inf or -inf it is 0.0, -0.0
\*    or nan, of which math.sqrt raises nothing.
\*  - The division by a viscosity of 0.0 raises ZeroDivisionError after
\*    density, sqrt_density and viscosity are assigned; dvisc keeps the
\*    value it had.
\*  - No other float operation of the body raises: an overflow of * or /
\*    is inf, and nan goes through.
SetNodeProperties(node) ==
    LET density == Density(node.temperature, node.pressure)
        viscosity == Viscosity(node.temperature)
    IN  IF node.temperature = Zero THEN [node |-> node, error |-> "ZeroDivisionError"]
        ELSE IF /\ Len(node.temperature) # 1
                /\ AbsoluteSign(node.pressure) * FloatSign(node.temperature) = -1
        THEN [node |-> [node EXCEPT !.density = density], error |-> "ValueError"]
        ELSE IF node.temperature \in ZeroViscosity
        THEN [node |-> [node EXCEPT !.density = density,
                                    !.sqrt_density = SqrtDensity(density),
                                    !.viscosity = viscosity],
              error |-> "ZeroDivisionError"]
        ELSE [node |-> [node EXCEPT !.density = density,
                                    !.sqrt_density = SqrtDensity(density),
                                    !.viscosity = viscosity,
                                    !.dvisc = Dvisc(density, viscosity)],
              error |-> ""]

\* The names in self.variable_nodes
VariableNames(self) == {self.variable_nodes[i] : i \in 1..Len(self.variable_nodes)}

\* `for node in ...` over the nodes named by names, from position k on:
\* the model afterwards and the exception that ended the loop, if any
RECURSIVE SetPropertiesOver(_, _, _)
SetPropertiesOver(self, names, k) ==
    IF k > Len(names) THEN [model |-> self, error |-> ""]
    ELSE LET i == CHOOSE j \in 1..Len(self.nodes) : self.nodes[j].name = names[k]
             r == SetNodeProperties(self.nodes[i])
             after == [self EXCEPT !.nodes[i] = r.node]
         IN  IF r.error # "" THEN [model |-> after, error |-> r.error]
             ELSE SetPropertiesOver(after, names, k + 1)

\* set_properties looping over every node of the model
set_properties_AllNodes(self) ==
    SetPropertiesOver(self, [i \in 1..Len(self.nodes) |-> self.nodes[i].name], 1)

\* Model.set_properties(): `for node in self.variable_nodes`
set_properties(self) == SetPropertiesOver(self, self.variable_nodes, 1)

\* el.type() of an element object
ElementTag(el) ==
    CHOOSE tag \in DOMAIN object_lookup : object_lookup[tag] = el["class"]

\* Model.summary(): the values formatted into the returned string, i.e. the
\* title, the count of elements per type tag, len(self.nodes),
\* len(self.links) and len(self.variable_nodes) (printed twice)
summary(self) ==
    LET tags == {ElementTag(self.elements[e]) : e \in DOMAIN self.elements}
    IN  [title |-> self.title,
         elements |-> [tag \in tags |->
             Cardinality({e \in DOMAIN self.elements : ElementTag(self.elements[e]) = tag})],
         nodes |-> Len(self.nodes), links |-> Len(self.links),
         size |-> <<Len(self.variable_nodes), Len(self.variable_nodes)>>]

\* The caller's records of the lines of a network
Rec(line) == CallerRecord(Reader_next(Reader(TRUE), <<line>>).item)

\* Record lists a caller hands to Model(): a variable and a fixed node, two
\* variable nodes, two fixed nodes, links ahead of their nodes, a node at
\* temperature 0.0 after one at 20.0, a node at a temperature of viscosity
\* 0.0 after one at 20.0, title only
SolveInputs ==
    LET n1c == "node n1 c 0.0 20.0 0.0"
        n1v == "node n1 v 0.0 20.0"
        n1z == "node n1 c 0.0 0.0 0.0"
        n1q == "node n1 c 0.0 -81.92870753935375 0.0"
        n2c == "node n2 c 0.0 20.0 -100.0"
        n2a == "node n2 a 0.0 20.0 0.0"
        e1 == "element e1 plr 1.0 1.0 3.0 0.5"
        e2 == "element e2 plr 1.0 1.0 3.0 0.5"
        l1 == "link l1 n1 0.0 n2 0.0 e1 null"
        l2 == "link l2 n2 0.0 n2 0.0 e2 null"
    IN  { [i \in 1..Len(net) |-> Rec(net[i])] :
            net \in { <<TitleLine("t1"), n1c, n2a, e1, l1>>,
                      <<n1c, n2c, e1, l1>>,
                      <<n1v, n2a, e1, l1>>,
                      <<l1, l2, n1c, n2a, e1, e2>>,
                      <<n2c, n1z, e1, l1>>,
                      <<n2c, n1q, e1, l1>>,
                      <<TitleLine("t1")>> } }

\* Pressures a solver iteration writes to a node; the first is below
\* -101325, where 101325.0+pressure turns negative, the second makes it 0.0
SolvePressures == {R(-200000), R(-101325), R(-100), Zero, R(50)}

\* Positions of the caller while it works on the constructed model
SolvePcs == {"built", "pressure_updated", "properties_set"}

\* items is the caller's list after model = Model(items), network_input
\* the list as it was handed in
InitSolve ==
    /\ source = "caller"
    /\ reader_title = None
    /\ network_input \in SolveInputs
    /\ items = ModelInit(network_input).items
    /\ model = ModelInit(network_input).model
    /\ pc = "built"
    /\ element = NoElement
    /\ link = NoLink
    /\ call = NoCall

\* The node object that a link's node0 or node1 refers to
NodeOf(self, name) == self.nodes[CHOOSE i \in 1..Len(self.nodes) : self.nodes[i].name = name]

\* A float held as a number, not as an expression
IsNumber(x) == Len(x) = 2

NumericNode(node) ==
    /\ IsNumber(node.density) /\ IsNumber(node.sqrt_density)
    /\ IsNumber(node.viscosity) /\ IsNumber(node.dvisc)

\* node.pressure = p, a solver iteration's update of an unknown
SetPressure(name, p) ==
    /\ pc \in SolvePcs /\ model.status = "ok"
    /\ name \in VariableNames(model)
    /\ model' = [model EXCEPT !.nodes = [i \in 1..Len(model.nodes) |->
                    IF model.nodes[i].name = name
                    THEN [model.nodes[i] EXCEPT !.pressure = p] ELSE model.nodes[i]]]
    /\ call' = [op |-> "set_pressure", node |-> name, pressure |-> p]
    /\ pc' = "pressure_updated"
    /\ UNCHANGED <<source, reader_title, items, network_input, element, link>>

\* model.set_properties(); an exception it raises ends the caller
SetProperties ==
    /\ pc \in SolvePcs /\ model.status = "ok"
    /\ model' = set_properties(model).model
    /\ call' = [op |-> "set_properties", error |-> set_properties(model).error]
    /\ pc' = IF set_properties(model).error = "" THEN "properties_set"
             ELSE set_properties(model).error
    /\ UNCHANGED <<source, reader_title, items, network_input, element, link>>

\* link.element.calculate(link, pdrop) for link k of the model; node0 and
\* node1 are the endpoint objects as the law reads them
EvaluateLink(k, pdrop) ==
    /\ pc \in SolvePcs /\ model.status = "ok"
    /\ k \in 1..Len(model.links)
    /\ LET l == model.links[k]
           node0 == NodeOf(model, l.node0)
           node1 == NodeOf(model, l.node1)
       IN  call' = [op |-> "calculate", link |-> k, pdrop |-> pdrop,
                    node0 |-> node0, node1 |-> node1,
                    result |-> IF NumericNode(node0) /\ NumericNode(node1)
                               THEN Calculate(model.elements[l.element], node0, node1, pdrop)
                               ELSE Term("calculate", l.element, pdrop)]
    /\ UNCHANGED <<source, reader_title, items, network_input, model, pc, element, link>>

\* link.element.linearize(link) for link k of the model
LinearizeLink(k) ==
    /\ pc \in SolvePcs /\ model.status = "ok"
    /\ k \in 1..Len(model.links)
    /\ LET l == model.links[k]
           node0 == NodeOf(model, l.node0)
           node1 == NodeOf(model, l.node1)
       IN  call' = [op |-> "linearize", link |-> k, node0 |-> node0, node1 |-> node1,
                    result |-> IF NumericNode(node0) /\ NumericNode(node1)
                               THEN Linearize(model.elements[l.element], node0, node1)
                               ELSE Term("linearize", l.element, None)]
    /\ UNCHANGED <<source, reader_title, items, network_input, model, pc, element, link>>

\* model.summary()
Summary ==
    /\ pc \in SolvePcs /\ model.status = "ok"
    /\ call' = [op |-> "summary", result |-> summary(model)]
    /\ UNCHANGED <<source, reader_title, items, network_input, model, pc, element, link>>

\* Model(items) once more, on the list the caller still holds; result is
\* the second model, or the exception class as its status
ConstructAgain ==
    /\ pc \in SolvePcs
    /\ call' = [op |-> "Model", result |-> ModelInit(items).model]
    /\ items' = ModelInit(items).items
    /\ pc' = "rebuilt"
    /\ UNCHANGED <<source, reader_title, network_input, model, element, link>>

NextSolve ==
    \/ \E name \in {"n1", "n2"} : \E p \in SolvePressures : SetPressure(name, p)
    \/ SetProperties
    \/ \E k \in 1..2 : \E pdrop \in PDrops : EvaluateLink(k, pdrop)
    \/ \E k \in 1..2 : LinearizeLink(k)
    \/ Summary
    \/ ConstructAgain

SpecSolve == InitSolve /\ [][NextSolve]_vars

\* ------------------------------------------------------------------------
\* Properties of Model construction
\* ------------------------------------------------------------------------
Built == pc = "built"
BuiltOk == pc = "built" /\ model.status = "ok"

\* The records of one kind, in input order
KindSeq(inp, kind) == SelectSeq(inp, LAMBDA r : r["input_type"] = kind)

NodeRecords(inp) == KindSeq(inp, "NODE")
ElementRecords(inp) == KindSeq(inp, "ELEMENT")
LinkRecords(inp) == KindSeq(inp, "LINK")

DeclaredNodes(inp) == {NodeRecords(inp)[k]["name"] : k \in 1..Len(NodeRecords(inp))}
DeclaredElements(inp) == {ElementRecords(inp)[k]["name"] : k \in 1..Len(ElementRecords(inp))}

\* The type code of the last NODE record that declares the name
LastType(inp, name) ==
    LET recs == NodeRecords(inp)
        k == CHOOSE k \in 1..Len(recs) :
                 /\ recs[k]["name"] = name
                 /\ \A m \in (k + 1)..Len(recs) : recs[m]["name"] # name
    IN  recs[k]["type"]

VariableSet(nodes) == {i \in 1..Len(nodes) : nodes[i].variable}

\* C1: after construction, size is the number of variable nodes and the
\* length of variable_nodes; each variable node's index is its 0-based
\* position in variable_nodes and each variable node is in it exactly once;
\* a fixed node has no index.
C1_DenseIndices ==
    BuiltOk =>
        /\ model.size = Cardinality(VariableSet(model.nodes))
        /\ model.size = Len(model.variable_nodes)
        /\ \A k \in 1..Len(model.variable_nodes) :
              /\ model.variable_nodes[k] \in Names(model.nodes)
              /\ NodeAt(model.nodes, model.variable_nodes[k]).variable
              /\ NodeAt(model.nodes, model.variable_nodes[k]).index = <<k - 1>>
        /\ \A i \in 1..Len(model.nodes) :
              IF model.nodes[i].variable
              THEN Cardinality({k \in 1..Len(model.variable_nodes) :
                                   model.variable_nodes[k] = model.nodes[i].name}) = 1
              ELSE model.nodes[i].index = None

\* A model of two variable nodes and a fixed one never exists with two node
\* names; the witness has a repeated node name, a fixed and a variable node
C1_Witness ==
    /\ BuiltOk
    /\ Len(NodeRecords(network_input)) > Cardinality(DeclaredNodes(network_input))
    /\ Len(model.nodes) = 2
    /\ model.size = 1
    /\ model.nodes[1].index = None
    /\ model.nodes[2].index = <<0>>

\* C2: a node is fixed when its record's type code is 'c' and variable for
\* every other type code, so only non-'c' nodes have an index and are in
\* variable_nodes.
C2_TypeCodeFlag ==
    BuiltOk =>
        \A i \in 1..Len(model.nodes) :
            LET type == LastType(network_input, model.nodes[i].name)
            IN  /\ model.nodes[i].variable = (type # "c")
                /\ (model.nodes[i].index # None) = (type # "c")
                /\ (\E k \in 1..Len(model.variable_nodes) :
                        model.variable_nodes[k] = model.nodes[i].name) = (type # "c")

\* Every link record names declared nodes and a declared element
WellFormed(inp) ==
    \A k \in 1..Len(LinkRecords(inp)) :
        /\ LinkRecords(inp)[k]["node-1"] \in DeclaredNodes(inp)
        /\ LinkRecords(inp)[k]["node-2"] \in DeclaredNodes(inp)
        /\ LinkRecords(inp)[k]["element"] \in DeclaredElements(inp)

\* C3: from the records the Reader yields for a well-formed description,
\* construction completes, with one node per distinct node name, one
\* element per distinct element name and one link per link record.
C3_ReaderInputBuilds ==
    (Built /\ source = "reader" /\ WellFormed(network_input)) =>
        /\ model.status = "ok"
        /\ Len(model.nodes) = Cardinality(DeclaredNodes(network_input))
        /\ Cardinality(DOMAIN model.elements) = Cardinality(DeclaredElements(network_input))
        /\ Len(model.links) = Len(LinkRecords(network_input))

\* C4: when a LINK record names an undeclared node or element, construction
\* ends in an error; a constructed model has no link with a missing
\* endpoint or element.
C4_UndeclaredReferenceAborts ==
    Built =>
        /\ ~WellFormed(network_input) => model.status # "ok"
        /\ model.status = "ok" =>
              \A k \in 1..Len(model.links) :
                  /\ model.links[k].node0 \in Names(model.nodes)
                  /\ model.links[k].node1 \in Names(model.nodes)
                  /\ model.links[k].element \in DOMAIN model.elements

\* The lookup of the link loop is what fails: the records are a caller's,
\* whose first loop raises nothing
C4_Witness ==
    /\ Built /\ source = "caller"
    /\ ~WellFormed(network_input)
    /\ Len(NodeRecords(network_input)) > 0
    /\ model.status = "KeyError"

\* The reordered input keeps the relative order of the records of the kinds
KeepsOrder(kinds) == \A kind \in kinds : KindSeq(network_input', kind) = KindSeq(network_input, kind)

\* Each link of the model is bound as its LINK record says, in input order
LinksAsDeclared ==
    /\ Len(model.links) = Len(LinkRecords(network_input))
    /\ \A k \in 1..Len(model.links) :
          LET rec == LinkRecords(network_input)[k]
          IN  /\ model.links[k].name = rec["name"]
              /\ model.links[k].node0 = rec["node-1"]
              /\ model.links[k].node1 = rec["node-2"]
              /\ model.links[k].element = rec["element"]

\* C5 as claimed: a reordering that keeps the relative order of the LINK
\* records and of the NODE records leaves the constructed model the same.
C5_AnyOrderOfOtherRecords ==
    [][(Built /\ Built' /\ KeepsOrder({"LINK", "NODE"})) => model' = model]_vars

\* C5 (amended): a reordering that keeps the relative order of the records
\* of each kind (TITLE, NODE, ELEMENT, LINK) leaves the constructed model
\* the same; the links of a constructed model are bound to the nodes and
\* elements their records name, wherever those are declared in the input,
\* and in the input order of the LINK records.
C5_DeferredLinkResolution ==
    /\ [](BuiltOk => LinksAsDeclared)
    /\ [][(Built /\ Built' /\ KeepsOrder({"TITLE", "NODE", "ELEMENT", "LINK"}))
             => model' = model]_vars

\* Two different link records ahead of the node and the element records
\* they name
C5_Witness ==
    /\ BuiltOk
    /\ Len(model.links) = 2
    /\ model.links[1].name # model.links[2].name
    /\ network_input[1]["input_type"] = "LINK"
    /\ network_input[2]["input_type"] = "LINK"
    /\ \E m \in 1..Len(network_input) : network_input[m]["input_type"] = "ELEMENT"

\* ------------------------------------------------------------------------
\* Properties of the element constructors and laws
\* ------------------------------------------------------------------------
\* The value given for a coefficient under either of its two names
Supplied(kwargs, name0, name1) ==
    IF name0 \in DOMAIN kwargs THEN kwargs[name0] ELSE kwargs[name1]

NeitherAlias(kwargs) ==
    \/ {"lam", "linear"} \cap DOMAIN kwargs = {}
    \/ {"turb", "coefficient"} \cap DOMAIN kwargs = {}

\* C6: Afe_Plr takes each required coefficient from whichever of its two
\* names is supplied, and raises MissingArgument, making no element,
\* exactly when a required coefficient is supplied under neither name; no
\* element has None for a required coefficient.
C6_AliasedCoefficients ==
    /\ (call.op = "new" /\ call.cls = "Afe_Plr") =>
          IF NeitherAlias(call.kwargs)
          THEN IsException(call.result) /\ call.result.exception = "MissingArgument"
          ELSE /\ ~IsException(call.result)
               /\ call.result["linear"] = Supplied(call.kwargs, "lam", "linear")
               /\ call.result["coefficient"] = Supplied(call.kwargs, "turb", "coefficient")
    /\ (element # NoElement /\ element["class"] = "Afe_Plr") =>
          element["linear"] # None /\ element["coefficient"] # None

\* C7: calculate on an element of a class without an implemented law ends
\* in an error, whatever the link and the pressure drop; it returns no flow.
C7_UnimplementedLawRaises ==
    (call.op = "calculate" /\ element["class"] \in ContainerClasses) =>
        IsException(call.result)

\* Afe_Fan inherits calculate from Afe_Plr and still raises
C7_Witness ==
    /\ call.op = "calculate" /\ element["class"] = "Afe_Fan"
    /\ element["lam"] = R(1) /\ element["turb"] = R(2)
    /\ call.pdrop = Zero
    /\ link.node0.dvisc = R(2)
    /\ IsException(call.result)

\* C8: at a pressure drop of exactly 0, Afe_Plr.calculate returns
\* (1, 0, 0, 0.5 * linear * (node0.dvisc + node1.dvisc), 0).
C8_ZeroDrop ==
    (call.op = "calculate" /\ element["class"] = "Afe_Plr" /\ call.pdrop = Zero
     /\ element["linear"] # None) =>
        call.result = Flows(1, Zero, Zero,
                            RMul(RMul(Half, element["linear"]),
                                 RAdd(link.node0.dvisc, link.node1.dvisc)), Zero)

\* The two endpoints differ, one of them with its placeholder properties
C8_Witness ==
    /\ call.op = "calculate" /\ element["class"] = "Afe_Plr" /\ call.pdrop = Zero
    /\ element["linear"] = R(1)
    /\ link.node0.dvisc = Zero /\ link.node1.dvisc = R(1)
    /\ ~IsException(call.result)
    /\ call.result.df1 = Half

\* A Plr element with numeric coefficients evaluated at a nonzero drop
NonzeroPlrCall ==
    /\ call.op = "calculate" /\ element["class"] = "Afe_Plr" /\ call.pdrop # Zero
    /\ element["linear"] # None /\ element["coefficient"] # None

\* The endpoint whose properties scale the flow at the drop
Upstream(pdrop) == IF RLt(Zero, pdrop) THEN link.node0 ELSE link.node1

Laminar(pdrop) == RMul(RMul(element["linear"], Upstream(pdrop).dvisc), pdrop)

Turbulent(pdrop) ==
    LET mag == RMul(RMul(element["coefficient"], Upstream(pdrop).sqrt_density),
                    Pow(RAbs(pdrop), element["exponent"]))
    IN  IF RLt(Zero, pdrop) THEN mag ELSE RNeg(mag)

\* flow1 is the candidate of smaller magnitude
SmallerCandidate ==
    /\ ~IsException(call.result)
    /\ call.result.nf = 1
    /\ call.result.f1 \in {Laminar(call.pdrop), Turbulent(call.pdrop)}
    /\ RLe(RAbs(call.result.f1), RAbs(Laminar(call.pdrop)))
    /\ RLe(RAbs(call.result.f1), RAbs(Turbulent(call.pdrop)))

Sign(x) == IF x[1] > 0 THEN 1 ELSE IF x[1] < 0 THEN -1 ELSE 0

\* C9 as claimed: at a nonzero drop, with non-negative coefficients and
\* node properties, flow1 is the laminar or turbulent candidate of smaller
\* magnitude, computed from node0 for a positive and node1 for a negative
\* drop, and flow1 has the sign of the pressure drop.
C9_SmallerCandidateSigned ==
    NonzeroPlrCall => SmallerCandidate /\ Sign(call.result.f1) = Sign(call.pdrop)

\* C9 (amended): as claimed, except that flow1 is zero or has the sign of
\* the pressure drop: it is zero when the smaller candidate is zero (a zero
\* coefficient or a zero node property).
C9_SmallerCandidate ==
    NonzeroPlrCall =>
        /\ SmallerCandidate
        /\ Sign(call.result.f1) \in {0, Sign(call.pdrop)}
        /\ (Sign(call.result.f1) = 0) =
              (Laminar(call.pdrop) = Zero \/ Turbulent(call.pdrop) = Zero)

\* The turbulent candidate wins at a negative drop, from node1's properties
C9_Witness ==
    /\ NonzeroPlrCall
    /\ call.pdrop = R(-4)
    /\ link.node0.dvisc # link.node1.dvisc
    /\ call.result.f1 = Turbulent(call.pdrop)
    /\ RLt(Laminar(call.pdrop), Turbulent(call.pdrop))
    /\ RLt(call.result.f1, Zero)

\* C10: for a doorway element built from its declared fields, with the
\* endpoint temperatures closer than dtmin, calculate returns what the Plr
\* law returns at pdrop - 0.5 * height * 9.8 * (node0.density - node1.density).
C10_DoorwayBelowThreshold ==
    (call.op = "new" /\ call.cls = "Afe_Dor" /\ DOMAIN call.kwargs = DorFields) =>
        /\ ~IsException(call.result)
        /\ \A pdrop \in PDrops :
              RLt(RAbs(RSub(link.node0.temperature, link.node1.temperature)),
                  call.kwargs["dtmin"]) =>
                  Calculate(call.result, link.node0, link.node1, pdrop)
                  = Plr_calculate(Afe_Plr(call.kwargs), link.node0, link.node1,
                                  RSub(pdrop, RMul(RMul(Half, call.kwargs["ht"]),
                                                   RMul(Gravity, RSub(link.node0.density,
                                                                      link.node1.density)))))

\* The neutral level y = pdrop / (9.8 * (node0.density - node1.density)) of
\* the link lies within a doorway of the height
NeutralLevelInDoorway(pdrop, height) ==
    LET gdrho == RMul(Gravity, RSub(link.node0.density, link.node1.density))
    IN  /\ gdrho # Zero
        /\ RLe(Zero, RDiv(pdrop, gdrho))
        /\ RLe(RDiv(pdrop, gdrho), height)

\* C11: for a doorway element with the endpoint temperatures at least dtmin
\* apart and the neutral level within the doorway, calculate returns two
\* branches whose flows have opposite directions.
C11_DoorwayTwoWayFlow ==
    (call.op = "new" /\ call.cls = "Afe_Dor" /\ DOMAIN call.kwargs = DorFields) =>
        /\ ~IsException(call.result)
        /\ \A pdrop \in PDrops :
              (/\ RLe(call.kwargs["dtmin"],
                      RAbs(RSub(link.node0.temperature, link.node1.temperature)))
               /\ NeutralLevelInDoorway(pdrop, call.kwargs["ht"])) =>
                  LET r == Calculate(call.result, link.node0, link.node1, pdrop)
                  IN  /\ ~IsException(r)
                      /\ r.nf = 2
                      /\ Sign(r.f1) * Sign(r.f2) = -1

\* C13: the Reader yields at most one TITLE record; a title line after the
\* first one ends the iteration with BadNetworkInput, whatever the text of
\* the first title.
C13_AtMostOneTitle ==
    (source = "reader" /\ pc \in {"input", "BadNetworkInput"}) =>
        Len(KindSeq(items, "TITLE")) <= 1

\* ------------------------------------------------------------------------
\* Properties of the solver steps
\* ------------------------------------------------------------------------

\* The four derived properties of a node are the property formulas of its
\* own temperature and pressure
FreshProperties(node) ==
    /\ node.density = Density(node.temperature, node.pressure)
    /\ node.sqrt_density = SqrtDensity(Density(node.temperature, node.pressure))
    /\ node.viscosity = Viscosity(node.temperature)
    /\ node.dvisc = Dvisc(Density(node.temperature, node.pressure),
                          Viscosity(node.temperature))

\* C12: when a link's law is evaluated with set_properties as the last
\* step that changed the model (no pressure update since), both endpoint
\* nodes, fixed or variable, are read with derived properties equal to the
\* formulas of their current temperature and pressure.
C12_EndpointsReadFresh ==
    (pc = "properties_set" /\ call.op = "calculate") =>
        FreshProperties(call.node0) /\ FreshProperties(call.node1)

\* What construction fixes: the node keys in order, each node's name,
\* index, flag, height, temperature and pressure, the elements with their
\* coefficients, the links with their bindings, variable_nodes and size
NodeFrame(node) ==
    [name |-> node.name, index |-> node.index, variable |-> node.variable,
     height |-> node.height, temperature |-> node.temperature, pressure |-> node.pressure]

Topology(self) ==
    [nodes |-> [i \in 1..Len(self.nodes) |-> NodeFrame(self.nodes[i])],
     elements |-> self.elements, links |-> self.links,
     variable_nodes |-> self.variable_nodes, size |-> self.size, title |-> self.title]

CoreOps == {"set_properties", "calculate", "linearize", "summary"}

\* C14: a core operation (set_properties, calculate, linearize, summary)
\* on a constructed model leaves the topology as it was, nodes' index,
\* flag, temperature and pressure and elements' coefficients included;
\* only set_properties changes the model at all, and it leaves every fixed
\* node as it was.
C14_CoreOperationsKeepTopology ==
    [][(pc \in SolvePcs /\ call'.op \in CoreOps) =>
          /\ Topology(model') = Topology(model)
          /\ Len(model'.nodes) = Len(model.nodes)
          /\ \A i \in 1..Len(model.nodes) :
                ~model.nodes[i].variable => model'.nodes[i] = model.nodes[i]
          /\ call'.op # "set_properties" => model' = model
          /\ items' = items]_vars

\* set_properties has rewritten the derived properties of a variable node
\* of a model that also has a fixed node
C14_Witness ==
    /\ pc = "properties_set" /\ call.op = "set_properties"
    /\ \E i, j \in 1..Len(model.nodes) :
          /\ model.nodes[i].variable /\ model.nodes[i].density # Zero
          /\ ~model.nodes[j].variable

\* C15: Model(items) leaves the list it was given as it was, and a second
\* Model(items) on that list succeeds with a model equal to the first.
C15_ConstructionRepeatable ==
    (pc = "rebuilt" /\ call.op = "Model") =>
        /\ items = network_input
        /\ call.result.status = "ok"
        /\ call.result = ModelInit(network_input).model
====
